---- MODULE Spec2Model ----
(***************************************************************************)
(* A model of the Sublation runtime (package runtime, with the parts of    *)
(* packages model, core and kernels it calls): engine construction, the    *)
(* arena sizing it rests on, the StreamScheduler and the two execution     *)
(* modes of Engine.Execute.                                                *)
(***************************************************************************)
EXTENDS Integers, Naturals, Sequences, FiniteSets, TLC

(***************************************************************************)
(* Bounds of the model.                                                    *)
(***************************************************************************)
\* largest worker count an engine is configured with
MaxWorkers == 2
\* number of Execute calls made one after another on one engine
MaxPasses == 3
\* bits of the machine word (uintptr) the arena's offset arithmetic is done in;
\* every size and offset of the model lies below 2^WordBits
WordBits == 16
\* number of calls made one after another on one arena under test
MaxCalls == 3
\* the node count up to which make([]model.Node, n) is taken to succeed on
\* every machine
MaxNodesAllocated == 1048576
\* number of nodes of the graphs Validate is called on
MaxGraphNodes == 2
\* SubmitWork calls made on a work-stealing scheduler under test
MaxSubmissions == 2

(***************************************************************************)
(* Program constants.                                                      *)
(***************************************************************************)
CacheLineSize == 64
\* the explicit arena size the runtime tests build their engines with
TestArenaSize == 4096
\* unsafe.Sizeof(core.Sublate{}) on a 64-bit target: four slice headers
\* (4 x 24), KernelID and Flags (8 with padding), offset and capacity (2 x 8)
SublateStructSize == 120
\* the fallback buffer size of calculateNodePayloadSize
DefaultPayloadSize == 256
\* the minimum arena size calculateArenaSize gives a graph with nodes
MinArenaSize == 1024
\* the topology sentinel
Sentinel == 65535
\* the alignment an arena allocation gets when the caller passes 0
DefaultAlignment == 8
\* opcodes of package kernels
OpNoop == 0
OpReLU == 3
\* the last opcode that init() of package kernels registers (OpBatchNorm)
LastRegisteredOp == 12

Nil == "nil"

(***************************************************************************)
(* Small helpers.                                                          *)
(***************************************************************************)
Min(a, b) == IF a < b THEN a ELSE b

Range(s) == {s[i] : i \in DOMAIN s}

RECURSIVE SumSeq(_)
SumSeq(s) == IF s = <<>> THEN 0 ELSE Head(s) + SumSeq(Tail(s))

Zeros(n) == [i \in 1..n |-> 0]

\* F applied to the value of v, with v evaluated once
With(v, F(_)) == CHOOSE r \in {F(x) : x \in {v}} : TRUE

\* all orders in which a set can be enumerated (Go's map iteration order)
RECURSIVE Orders(_)
Orders(S) ==
  IF S = {} THEN {<<>>}
  ELSE UNION {{<<x>> \o o : o \in Orders(S \ {x})} : x \in S}

(***************************************************************************)
(* core/sublate.go: alignment                                              *)
(***************************************************************************)
AlignedSize(size) == ((size + (CacheLineSize - 1)) \div CacheLineSize) * CacheLineSize

\* uintptr addition
WordModulus == 2 ^ WordBits
WrapAdd(a, b) == (a + b) % WordModulus

\* (x + a - 1) &^ (a - 1) for a power of two a
AlignUp(x, a) == (WrapAdd(x, a - 1) \div a) * a

(***************************************************************************)
(* Package kernels: the catalog and the two kernels the inputs use.        *)
(* A buffer is a sequence of bytes; a float32 lane is four bytes,          *)
(* little-endian.                                                          *)
(***************************************************************************)
\* the nil entry of the catalog
NilKernel == -1

\* kernels.GetKernel: the catalog entry, nil for an opcode nothing registered
GetKernel(opcode) == IF opcode <= LastRegisteredOp THEN opcode ELSE NilKernel

\* *p < 0 for the float32 whose bytes are b0 (lowest) .. b3: sign bit set,
\* not negative zero, not a NaN
LaneNegative(b0, b1, b2, b3) ==
  /\ b3 >= 128
  /\ ~(b3 = 128 /\ b2 = 0 /\ b1 = 0 /\ b0 = 0)
  /\ ~(b3 = 255 /\ b2 >= 128 /\ (b2 > 128 \/ b1 > 0 \/ b0 > 0))

relu(data) ==
  LET count == Len(data) \div 4
      neg(l) == LaneNegative(data[4*l + 1], data[4*l + 2], data[4*l + 3], data[4*l + 4])
  IN [i \in 1..Len(data) |->
        IF (i - 1) \div 4 < count /\ neg((i - 1) \div 4) THEN 0 ELSE data[i]]

noop(data) == data

\* the call kernelFn(data) for a catalog entry of package kernels
CallKernel(kernelFn, data) ==
  IF kernelFn = OpReLU THEN relu(data) ELSE noop(data)

\* the runtime package's own kernelCatalog: init() fills all 256 slots with noop
kernelCatalog(opcode) == OpNoop

(***************************************************************************)
(* The graphs the model runs on (model.Graph values).                       *)
(***************************************************************************)
Node(id, in, out, kernel, topo) ==
  [ID |-> id, In |-> in, Out |-> out, Kernel |-> kernel, Flags |-> 0, Topo |-> topo]

\* 96 payload bytes: lanes of 0xAAAAAAAA (a negative float32), the last lane 1.0
Payload96 ==
  [i \in 1..96 |-> IF i <= 92 THEN 170 ELSE IF i = 95 THEN 128 ELSE IF i = 96 THEN 63 ELSE 0]

\* 16 payload bytes 0xAA
Payload16 == [i \in 1..16 |-> 170]

Graphs == <<
  \* 1: one no-op node
  [Nodes |-> <<Node(0, 0, 64, OpNoop, <<>>)>>, Payload |-> Payload96],
  \* 2: a chain 0 <- 1, listed in dependency order
  [Nodes |-> <<Node(0, 0, 64, OpReLU, <<>>), Node(1, 32, 96, OpReLU, <<0>>)>>,
   Payload |-> Payload96],
  \* 3: the same chain, listed dependent first
  [Nodes |-> <<Node(1, 32, 96, OpReLU, <<0>>), Node(0, 0, 64, OpReLU, <<>>)>>,
   Payload |-> Payload96],
  \* 4: the diamond 0; 1 and 2 on 0; 3 on 1 and 2
  [Nodes |-> <<Node(0, 0, 64, OpNoop, <<>>), Node(1, 0, 64, OpReLU, <<0>>),
               Node(2, 32, 96, OpNoop, <<0>>), Node(3, 0, 64, OpReLU, <<1, 2>>)>>,
   Payload |-> Payload96],
  \* 5: a cycle
  [Nodes |-> <<Node(0, 0, 64, OpNoop, <<1>>), Node(1, 0, 64, OpNoop, <<0>>)>>,
   Payload |-> Payload96],
  \* 6: sentinel padding in the topology
  [Nodes |-> <<Node(0, 0, 64, OpNoop, <<Sentinel, Sentinel>>),
               Node(1, 0, 64, OpNoop, <<0, Sentinel>>)>>,
   Payload |-> Payload96],
  \* 7: a topology entry that names no node
  [Nodes |-> <<Node(0, 0, 64, OpNoop, <<>>), Node(1, 0, 64, OpNoop, <<7>>)>>,
   Payload |-> Payload96],
  \* 8: a duplicate id
  [Nodes |-> <<Node(0, 0, 64, OpNoop, <<>>), Node(0, 32, 96, OpNoop, <<>>)>>,
   Payload |-> Payload96],
  \* 9: out_off beyond the payload
  [Nodes |-> <<Node(0, 64, 128, OpNoop, <<>>)>>, Payload |-> Payload96],
  \* 10: an opcode nothing registered, followed by a dependent node
  [Nodes |-> <<Node(0, 0, 64, 13, <<>>), Node(1, 0, 64, OpNoop, <<0>>)>>,
   Payload |-> Payload96],
  \* 11: a 16-byte no-op node over a 16-byte payload
  [Nodes |-> <<Node(0, 0, 16, OpNoop, <<>>)>>, Payload |-> Payload16],
  \* 12: four levels, listed deepest first; node 3 names its deeper
  \* dependency before its shallower one
  [Nodes |-> <<Node(3, 0, 64, OpNoop, <<2, 0>>), Node(2, 0, 64, OpNoop, <<1>>),
               Node(1, 0, 64, OpNoop, <<0>>), Node(0, 0, 64, OpNoop, <<>>)>>,
   Payload |-> Payload96]
>>

(***************************************************************************)
(* Properties of a graph (the data-model invariants of the specification). *)
(***************************************************************************)
NodeIds(g) == {g.Nodes[i].ID : i \in DOMAIN g.Nodes}

\* every id that occurs in the graph, as a node id or as a topology entry
IdsOf(g) == NodeIds(g) \cup UNION {Range(g.Nodes[i].Topo) : i \in DOMAIN g.Nodes}

\* the dependencies of id: the non-sentinel topology entries of its nodes
DepsOf(g, id) ==
  UNION {Range(g.Nodes[i].Topo) \ {Sentinel} : i \in {j \in DOMAIN g.Nodes : g.Nodes[j].ID = id}}

RECURSIVE ReachFrom(_, _, _)
ReachFrom(g, S, n) ==
  IF n = 0 THEN S
  ELSE ReachFrom(g, S \cup UNION {DepsOf(g, x) : x \in S}, n - 1)

\* some node reaches itself along dependency edges
Cyclic(g) ==
  \E id \in NodeIds(g) : id \in ReachFrom(g, DepsOf(g, id), Cardinality(IdsOf(g)))

UniqueIds(g) == Cardinality(NodeIds(g)) = Len(g.Nodes)

NoDangling(g) == \A id \in NodeIds(g) : DepsOf(g, id) \subseteq NodeIds(g)

HasSentinel(g) == Sentinel \in IdsOf(g)

OffsetsInBounds(g) ==
  \A i \in DOMAIN g.Nodes :
    g.Nodes[i].In <= g.Nodes[i].Out /\ g.Nodes[i].Out <= Len(g.Payload)

(***************************************************************************)
(* StreamScheduler construction.                                           *)
(***************************************************************************)
\* buildDependencies: deps[id] is the concatenation of the Topo lists of the
\* nodes with that id, in graph order; an id that is no node has no entry
\* (reading it yields the empty list)
RECURSIVE buildDependenciesFrom(_, _, _)
buildDependenciesFrom(g, i, deps) ==
  IF i > Len(g.Nodes) THEN deps
  ELSE With([deps EXCEPT ![g.Nodes[i].ID] = @ \o g.Nodes[i].Topo],
            LAMBDA d : buildDependenciesFrom(g, i + 1, d))

buildDependencies(g) == buildDependenciesFrom(g, 1, [id \in IdsOf(g) |-> <<>>])

\* "no entry" in the nodeLevels map
NoLevel == -1

\* calculateLevel with its two maps: nodeLevels (nl) is threaded through, and
\* visited (vis) holds exactly the ids of the calls in progress
RECURSIVE calculateLevel(_, _, _, _)
RECURSIVE calculateLevelDeps(_, _, _, _, _, _)
calculateLevel(deps, nodeID, nl, vis) ==
  IF nl[nodeID] # NoLevel THEN [level |-> nl[nodeID], nl |-> nl]
  ELSE IF nodeID \in vis THEN [level |-> 0, nl |-> nl]
  ELSE With(calculateLevelDeps(deps, deps[nodeID], 1, -1, nl, vis \cup {nodeID}),
            LAMBDA r : [level |-> r.level + 1, nl |-> [r.nl EXCEPT ![nodeID] = r.level + 1]])

\* the loop over s.deps[nodeID] without its comparison: maxDepLevel is the
\* level of the dependency visited last
calculateLevelDepsLast(deps, ds, i, maxDepLevel, nl, vis) ==
  IF i > Len(ds) THEN [level |-> maxDepLevel, nl |-> nl]
  ELSE With(calculateLevel(deps, ds[i], nl, vis),
            LAMBDA r : calculateLevelDeps(deps, ds, i + 1, r.level, r.nl, vis))

\* the loop over s.deps[nodeID]: level is maxDepLevel so far
calculateLevelDeps(deps, ds, i, maxDepLevel, nl, vis) ==
  IF i > Len(ds) THEN [level |-> maxDepLevel, nl |-> nl]
  ELSE With(calculateLevel(deps, ds[i], nl, vis),
            LAMBDA r : calculateLevelDeps(deps, ds, i + 1,
                                          IF r.level > maxDepLevel THEN r.level ELSE maxDepLevel,
                                          r.nl, vis))

\* the first node of the graph with the given id (originalNode)
OriginalNode(g, id) ==
  g.Nodes[CHOOSE i \in DOMAIN g.Nodes :
            g.Nodes[i].ID = id /\ \A j \in 1..(i - 1) : g.Nodes[j].ID # id]

\* the loop of createTaskGroups over graph.Nodes: levels maps a level to the
\* nodes appended to it, in order
RECURSIVE createLevels(_, _, _, _, _)
createLevels(g, deps, i, nl, levels) ==
  IF i > Len(g.Nodes) THEN [nl |-> nl, levels |-> levels]
  ELSE With(calculateLevel(deps, g.Nodes[i].ID, nl, {}),
            LAMBDA r : With([levels EXCEPT ![r.level] = Append(@, OriginalNode(g, g.Nodes[i].ID))],
                            LAMBDA ls : createLevels(g, deps, i + 1, r.nl, ls)))

\* createTaskGroups with its last loop stopping below maxLevel (i < maxLevel)
createTaskGroupsBelowMax(g, deps) ==
  With(createLevels(g, deps, 1, [id \in IdsOf(g) |-> NoLevel],
                    [l \in 0..Cardinality(IdsOf(g)) |-> <<>>]),
       LAMBDA r : [l \in {k \in DOMAIN r.levels :
                            /\ r.levels[k] # <<>>
                            /\ \E m \in DOMAIN r.levels : m > k /\ r.levels[m] # <<>>}
                   |-> r.levels[l]])

\* createTaskGroups: the waiting map, one TaskGroup (its nodes) per level
\* that received a node
createTaskGroups(g, deps) ==
  With(createLevels(g, deps, 1, [id \in IdsOf(g) |-> NoLevel],
                    [l \in 0..Cardinality(IdsOf(g)) |-> <<>>]),
       LAMBDA r : [l \in {k \in DOMAIN r.levels : r.levels[k] # <<>>} |-> r.levels[l]])

\* a scheduler whose task groups depend on the number of workers: a single
\* group of all nodes when there is more than one
NewStreamSchedulerOneGroup(g, workerCount) ==
  With(buildDependencies(g),
       LAMBDA deps : [built |-> TRUE, ready |-> <<>>, closed |-> FALSE, completed |-> <<>>,
                      deps |-> deps,
                      waiting |-> IF workerCount > 1 THEN [l \in {0} |-> g.Nodes]
                                  ELSE createTaskGroups(g, deps),
                      workers |-> workerCount])

\* NewStreamScheduler: it returns a scheduler for every graph
NewStreamScheduler(g, workerCount) ==
  With(buildDependencies(g),
       LAMBDA deps : [built |-> TRUE, ready |-> <<>>, closed |-> FALSE, completed |-> <<>>,
                      deps |-> deps, waiting |-> createTaskGroups(g, deps),
                      workers |-> workerCount])

\* the nil scheduler of an engine that is not in streaming mode
NoScheduler(g) ==
  [built |-> FALSE, ready |-> <<>>, closed |-> FALSE, completed |-> <<>>,
   deps |-> [id \in IdsOf(g) |-> <<>>], waiting |-> [l \in {} |-> <<>>], workers |-> 0]

\* capacity of the ready and of the completed channel
ChanCap(g) == Len(g.Nodes)

(***************************************************************************)
(* Arena sizing and construction (runtime/arena.go and the engine's sizing *)
(* functions).  A region is [Offset, Size]; the zero region is a region    *)
(* that was not laid out.                                                  *)
(***************************************************************************)
calculateNodePayloadSize(node) ==
  IF node.Out > node.In THEN node.Out - node.In ELSE DefaultPayloadSize

\* the sum over the nodes of nodePayload * 2
TotalNodeDataSize(g) ==
  SumSeq([i \in DOMAIN g.Nodes |-> calculateNodePayloadSize(g.Nodes[i]) * 2])

AlignedSublateStructSize == AlignedSize(SublateStructSize)

calculateArenaSize(g) ==
  LET base == Len(g.Payload)
              + (IF Len(g.Nodes) > 0 THEN Len(g.Nodes) * AlignedSublateStructSize ELSE 0)
              + AlignedSize(TotalNodeDataSize(g))
      withScratch == IF base > 0 THEN base + base \div 4
                     ELSE IF Len(g.Nodes) > 0 THEN base + MinArenaSize ELSE base
      atLeast == IF Len(g.Nodes) > 0 /\ withScratch < MinArenaSize THEN MinArenaSize
                 ELSE IF Len(g.Nodes) = 0 /\ Len(g.Payload) = 0 /\ withScratch < 256
                      THEN 256 ELSE withScratch
  IN AlignedSize(atLeast)

\* the sizes of the three caller-sized regions
calculateArenaSizes(totalSize, streamingMode, g) ==
  LET wanted == IF Len(g.Nodes) > 0 THEN AlignedSize(TotalNodeDataSize(g)) ELSE 0
      nodePayloads == IF wanted < totalSize THEN wanted ELSE totalSize \div 2
      remainingSize == totalSize - nodePayloads
      streamSize == IF streamingMode THEN remainingSize \div 4 ELSE 0
      scratch == IF streamingMode THEN remainingSize \div 4 ELSE remainingSize \div 2
      total == nodePayloads + streamSize + scratch
  IN IF total > totalSize
     THEN \* scale down proportionally (the code does this in float64)
          [nodePayloads |-> (nodePayloads * totalSize) \div total,
           streaming |-> (streamSize * totalSize) \div total,
           scratch |-> (scratch * totalSize) \div total]
     ELSE [nodePayloads |-> nodePayloads, streaming |-> streamSize, scratch |-> scratch]

calculateMinRequiredSize(g, nodePayloadsSize, streamingInputSize, kernelScratchSize) ==
  AlignedSize(
      (IF Len(g.Payload) > 0 THEN AlignedSize(Len(g.Payload)) ELSE 0)
    + (IF Len(g.Nodes) > 0 THEN AlignedSize(Len(g.Nodes) * AlignedSublateStructSize) ELSE 0)
    + (IF nodePayloadsSize > 0 THEN AlignedSize(nodePayloadsSize) ELSE 0)
    + (IF kernelScratchSize > 0 THEN AlignedSize(kernelScratchSize) ELSE 0)
    + (IF streamingInputSize > 0 THEN AlignedSize(streamingInputSize) ELSE 0))

\* the effective size, or 0 with an error when the caller's size is too small
calculateEffectiveSize(totalSize, g, nodePayloadsSize, streamingInputSize, kernelScratchSize) ==
  LET minRequiredSize ==
        calculateMinRequiredSize(g, nodePayloadsSize, streamingInputSize, kernelScratchSize)
  IN IF totalSize = 0 THEN [size |-> minRequiredSize, err |-> Nil]
     ELSE IF AlignedSize(totalSize) < minRequiredSize THEN [size |-> 0, err |-> "TooSmall"]
     ELSE [size |-> AlignedSize(totalSize), err |-> Nil]

ZeroRegion == [Offset |-> 0, Size |-> 0]

\* one layoutXxx step: a region of the given size at the next aligned offset,
\* or no region (and the offset unchanged) when the size is 0
LayoutRegion(currentOffset, size) ==
  IF size = 0 THEN [region |-> ZeroRegion, next |-> currentOffset]
  ELSE [region |-> [Offset |-> AlignedSize(currentOffset), Size |-> size],
        next |-> AlignedSize(currentOffset) + size]

layoutArenaRegions(g, nodePayloadsSize, streamingInputSize, kernelScratchSize, effectiveTotalSize) ==
  LET mp == LayoutRegion(0, IF Len(g.Payload) = 0 THEN 0 ELSE AlignedSize(Len(g.Payload)))
      sm == LayoutRegion(mp.next, Len(g.Nodes) * AlignedSublateStructSize)
      np == LayoutRegion(sm.next, nodePayloadsSize)
      sc == LayoutRegion(np.next, kernelScratchSize)
      si == LayoutRegion(sc.next, streamingInputSize)
      ftOff == AlignedSize(si.next)
      ftSize == IF effectiveTotalSize > ftOff THEN effectiveTotalSize - ftOff ELSE 0
  IN [err |-> IF ftOff + ftSize > effectiveTotalSize THEN "LayoutExceeds" ELSE Nil,
      totalSize |-> effectiveTotalSize,
      modelPayload |-> mp.region, sublateMeta |-> sm.region, nodePayloads |-> np.region,
      scratch |-> sc.region, streamingInput |-> si.region,
      freeTail |-> [Offset |-> ftOff, Size |-> ftSize],
      currentNodePayloadOffset |-> np.region.Offset,
      currentScratchOffset |-> sc.region.Offset]

NoArena(err) ==
  [err |-> err, totalSize |-> 0, modelPayload |-> ZeroRegion, sublateMeta |-> ZeroRegion,
   nodePayloads |-> ZeroRegion, scratch |-> ZeroRegion, streamingInput |-> ZeroRegion,
   freeTail |-> ZeroRegion, currentNodePayloadOffset |-> 0, currentScratchOffset |-> 0]

NewArena(totalSize, g, nodePayloadsSize, streamingInputSize, kernelScratchSize) ==
  IF totalSize = 0 /\ Len(g.Payload) = 0 /\ nodePayloadsSize = 0
     /\ streamingInputSize = 0 /\ kernelScratchSize = 0
  THEN NoArena("ZeroSize")
  ELSE LET eff == calculateEffectiveSize(totalSize, g, nodePayloadsSize,
                                         streamingInputSize, kernelScratchSize)
       IN IF eff.err # Nil THEN NoArena(eff.err)
          ELSE layoutArenaRegions(g, nodePayloadsSize, streamingInputSize,
                                  kernelScratchSize, eff.size)

\* AllocateNodePayload: the range handed out (its offset and length) and the
\* arena with its cursor moved.  The slice expression
\* buffer[alignedOffset : alignedOffset+size] panics when the sum has wrapped
\* around below alignedOffset.
AllocateNodePayloadNoAdvance(a, size, alignment) ==
  LET align == IF alignment = 0 THEN DefaultAlignment ELSE alignment
      alignedOffset == AlignUp(a.currentNodePayloadOffset, align)
      end == WrapAdd(alignedOffset, size)
  IN IF a.nodePayloads.Size = 0
     THEN [err |-> "NoRegion", off |-> 0, len |-> 0, arena |-> a]
     ELSE IF end > WrapAdd(a.nodePayloads.Offset, a.nodePayloads.Size)
          THEN [err |-> "NodePayloadsExhausted", off |-> 0, len |-> 0, arena |-> a]
     ELSE IF end < alignedOffset
          THEN [err |-> "SliceBoundsPanic", off |-> 0, len |-> 0, arena |-> a]
     ELSE [err |-> Nil, off |-> alignedOffset, len |-> end - alignedOffset,
           arena |-> [a EXCEPT !.currentNodePayloadOffset = alignedOffset]]

AllocateNodePayload(a, size, alignment) ==
  LET align == IF alignment = 0 THEN DefaultAlignment ELSE alignment
      alignedOffset == AlignUp(a.currentNodePayloadOffset, align)
      end == WrapAdd(alignedOffset, size)
  IN IF a.nodePayloads.Size = 0
     THEN [err |-> "NoRegion", off |-> 0, len |-> 0, arena |-> a]
     ELSE IF end > WrapAdd(a.nodePayloads.Offset, a.nodePayloads.Size)
          THEN [err |-> "NodePayloadsExhausted", off |-> 0, len |-> 0, arena |-> a]
     ELSE IF end < alignedOffset
          THEN [err |-> "SliceBoundsPanic", off |-> 0, len |-> 0, arena |-> a]
     ELSE [err |-> Nil, off |-> alignedOffset, len |-> end - alignedOffset,
           arena |-> [a EXCEPT !.currentNodePayloadOffset = end]]

ResetNodePayloads(a) == [a EXCEPT !.currentNodePayloadOffset = a.nodePayloads.Offset]

\* AllocateScratch: the same allocator on the scratch region
AllocateScratch(a, size, alignment) ==
  LET align == IF alignment = 0 THEN DefaultAlignment ELSE alignment
      alignedOffset == AlignUp(a.currentScratchOffset, align)
      end == WrapAdd(alignedOffset, size)
  IN IF a.scratch.Size = 0
     THEN [err |-> "NoRegion", off |-> 0, len |-> 0, arena |-> a]
     ELSE IF end > WrapAdd(a.scratch.Offset, a.scratch.Size)
          THEN [err |-> "ScratchExhausted", off |-> 0, len |-> 0, arena |-> a]
     ELSE IF end < alignedOffset
          THEN [err |-> "SliceBoundsPanic", off |-> 0, len |-> 0, arena |-> a]
     ELSE [err |-> Nil, off |-> alignedOffset, len |-> end - alignedOffset,
           arena |-> [a EXCEPT !.currentScratchOffset = end]]

ResetScratchBothCursors(a) ==
  [a EXCEPT !.currentScratchOffset = a.scratch.Offset,
            !.currentNodePayloadOffset = a.nodePayloads.Offset]

ResetScratch(a) == [a EXCEPT !.currentScratchOffset = a.scratch.Offset]

\* uintptr(index) * alignedSublateStructSize: the conversion of a negative
\* int and the product both wrap
SlotOffsetInRegion(index) ==
  ((index % WordModulus) * AlignedSublateStructSize) % WordModulus

\* the arena offset of the slot GetSublateAtIndex returns with a nil error
SlotOffset(a, index) == WrapAdd(a.sublateMeta.Offset, SlotOffsetInRegion(index))

\* GetSublateAtIndex: whether slot index lies inside the metadata region
GetSublateAtIndex(a, index) ==
  LET offsetInRegion == SlotOffsetInRegion(index)
      absOffset == SlotOffset(a, index)
  IN IF a.sublateMeta.Size = 0 THEN "NoRegion"
     ELSE IF offsetInRegion >= a.sublateMeta.Size
             \/ WrapAdd(offsetInRegion, AlignedSublateStructSize) > a.sublateMeta.Size
          THEN "OutOfBounds"
     ELSE IF absOffset >= a.totalSize
             \/ WrapAdd(absOffset, AlignedSublateStructSize) > a.totalSize
          THEN "OutOfBounds"
     ELSE Nil

(***************************************************************************)
(* Sublate initialization (Engine.initializeSublates and its helpers).     *)
(* A sublate holds the contents of its two buffers and the arena offsets   *)
(* they were carved at.                                                    *)
(***************************************************************************)
\* a byte of the NodeMetadata region read through the payload view: the
\* memory of the Sublate structs, whose value is not modelled
MetadataByte == -1

\* byte off (from 0) of the slice modelPayloadBytes[0:cap]: the payload, then
\* the zero padding of the ModelPayload region, then what follows the region
ModelPayloadByte(g, a, off) ==
  IF off < Len(g.Payload) THEN g.Payload[off + 1]
  ELSE IF off < a.modelPayload.Size THEN 0
  ELSE MetadataByte

\* allocateSublatePayloads: both buffers, zeroed, or the allocator's error
allocateSublatePayloadsUnrounded(node, a) ==
  LET payloadSize == calculateNodePayloadSize(node)
      failed(err, ar) == [err |-> err, arena |-> ar, prevOff |-> 0, propOff |-> 0, size |-> 0]
  IN IF payloadSize = 0 THEN failed(Nil, a)
     ELSE With(AllocateNodePayload(a, payloadSize, DefaultAlignment),
            LAMBDA p1 :
              IF p1.err # Nil THEN failed(p1.err, a)
              ELSE With(AllocateNodePayload(p1.arena, payloadSize, DefaultAlignment),
                     LAMBDA p2 :
                       IF p2.err # Nil THEN failed(p2.err, p1.arena)
                       ELSE [err |-> Nil, arena |-> p2.arena, prevOff |-> p1.off,
                             propOff |-> p2.off, size |-> payloadSize]))

allocateSublatePayloads(node, a) ==
  LET alignedPayloadSize == AlignedSize(calculateNodePayloadSize(node))
      failed(err, ar) == [err |-> err, arena |-> ar, prevOff |-> 0, propOff |-> 0, size |-> 0]
  IN IF alignedPayloadSize = 0 THEN failed(Nil, a)
     ELSE With(AllocateNodePayload(a, alignedPayloadSize, CacheLineSize),
            LAMBDA p1 :
              IF p1.err # Nil THEN failed(p1.err, a)
              ELSE With(AllocateNodePayload(p1.arena, alignedPayloadSize, CacheLineSize),
                     LAMBDA p2 :
                       IF p2.err # Nil THEN failed(p2.err, p1.arena)
                       ELSE [err |-> Nil, arena |-> p2.arena, prevOff |-> p1.off,
                             propOff |-> p2.off, size |-> alignedPayloadSize]))

\* copyInitialPayloadData: the contents of PayloadPrev after the copy
copyInitialPayloadData(prev, node, g, a) ==
  IF Len(g.Payload) > 0 /\ node.Out > node.In
  THEN LET n == Min(Len(prev), node.Out - node.In)
       IN [i \in 1..Len(prev) |->
             IF i <= n THEN ModelPayloadByte(g, a, node.In + i - 1) ELSE prev[i]]
  ELSE prev

initializeSublateFields(node, g, a) ==
  With(allocateSublatePayloads(node, a),
       LAMBDA al :
         [err |-> al.err, arena |-> al.arena,
          sublate |-> [KernelID |-> node.Kernel, Flags |-> node.Flags, Topology |-> node.Topo,
                       PayloadPrev |-> With(Zeros(al.size),
                                            LAMBDA z : copyInitialPayloadData(z, node, g, a)),
                       PayloadProp |-> Zeros(al.size),
                       PrevOff |-> al.prevOff, PropOff |-> al.propOff]])

\* the loop of initializeSublates from node i on
RECURSIVE initializeSublatesFrom(_, _, _, _)
initializeSublatesFrom(g, a, i, done) ==
  IF i > Len(g.Nodes) THEN [err |-> Nil, arena |-> a, sublates |-> done]
  ELSE IF GetSublateAtIndex(a, i - 1) # Nil
       THEN [err |-> GetSublateAtIndex(a, i - 1), arena |-> a, sublates |-> done]
  ELSE With(initializeSublateFields(g.Nodes[i], g, a),
            LAMBDA r :
              IF r.err # Nil THEN [err |-> r.err, arena |-> r.arena, sublates |-> done]
              ELSE With(Append(done, r.sublate),
                        LAMBDA d : initializeSublatesFrom(g, r.arena, i + 1, d)))

initializeSublates(g, a) ==
  IF Len(g.Payload) > 0 /\ a.modelPayload.Size = 0
  THEN [err |-> "NoPayloadRegion", arena |-> a, sublates |-> <<>>]
  ELSE initializeSublatesFrom(g, a, 1, <<>>)

\* the sublate with its buffers left in place
SwapBuffersNot(s) == s

\* SwapBuffers
SwapBuffers(s) ==
  [s EXCEPT !.PayloadPrev = s.PayloadProp, !.PayloadProp = s.PayloadPrev,
            !.PrevOff = s.PropOff, !.PropOff = s.PrevOff]

(***************************************************************************)
(* Engine construction.                                                    *)
(***************************************************************************)
\* createBaseEngine: the arena size of the engine's options
EngineArenaSize(g, o) == IF o.ArenaSize = 0 THEN calculateArenaSize(g) ELSE o.ArenaSize

createArenaWithFallback(totalSize, g, sizes) ==
  With(NewArena(totalSize, g, sizes.nodePayloads, sizes.streaming, sizes.scratch),
       LAMBDA first : IF first.err # Nil THEN NewArena(totalSize, g, 0, 0, 0) ELSE first)

\* NewEngine: the error it returns (Nil when it returns an engine), the arena,
\* the sublates and the scheduler of the engine
NewEngine(g, o) ==
  LET failed(err, a) ==
        [err |-> err, arena |-> a, sublates |-> <<>>, scheduler |-> NoScheduler(g)]
  IN With(EngineArenaSize(g, o),
       LAMBDA arenaSize :
         IF arenaSize = 0 /\ Len(g.Nodes) > 0 THEN failed("ZeroArenaSize", NoArena(Nil))
         ELSE With(With(calculateArenaSizes(arenaSize, o.Streaming, g),
                        LAMBDA sizes : createArenaWithFallback(arenaSize, g, sizes)),
                LAMBDA a :
                  IF a.err # Nil THEN failed(a.err, a)
                  ELSE With(initializeSublates(g, a),
                         LAMBDA init :
                           IF Len(g.Nodes) > 0 /\ init.err # Nil THEN failed(init.err, a)
                           ELSE [err |-> Nil, arena |-> init.arena,
                                 sublates |-> init.sublates,
                                 scheduler |-> IF o.Streaming /\ o.Workers > 0
                                               THEN NewStreamScheduler(g, o.Workers)
                                               ELSE NoScheduler(g)])))

\* setupExecutionArena and prepareExecution: every Execute builds a new arena
\* and initializes the sublates in it
prepareExecution(g, o) ==
  With(With(calculateArenaSizes(o.ArenaSize, o.Streaming, g),
            LAMBDA sizes : NewArena(o.ArenaSize, g, sizes.nodePayloads, sizes.streaming,
                                    sizes.scratch)),
       LAMBDA a : IF a.err # Nil THEN [err |-> a.err, arena |-> a, sublates |-> <<>>]
                  ELSE initializeSublates(g, a))

(***************************************************************************)
(* The scheduler's readiness test and release, and the code both execution *)
(* modes run per node.                                                     *)
(***************************************************************************)
GroupIds(group) == {group[k].ID : k \in DOMAIN group}

\* isTaskGroupReady with the node's own id looked up in place of depID
isTaskGroupReadyOwnId(deps, group, sched) ==
  \A k \in DOMAIN group :
    \A j \in DOMAIN deps[group[k].ID] : group[k].ID \in sched

\* isTaskGroupReady: every dependency of every node of the group is scheduled
isTaskGroupReady(deps, group, sched) ==
  \A k \in DOMAIN group :
    \A j \in DOMAIN deps[group[k].ID] : deps[group[k].ID][j] \in sched

\* scheduleTaskGroup: the group goes to the ready queue, its nodes are marked
\* scheduled and the level leaves the waiting map
scheduleTaskGroup(s, level, sched) ==
  [s |-> [s EXCEPT !.ready = Append(@, s.waiting[level]),
                   !.waiting = [l \in (DOMAIN s.waiting) \ {level} |-> s.waiting[l]]],
   scheduled |-> sched \cup GroupIds(s.waiting[level])]

\* scheduleInitialReady: the loop over the waiting map, in the order given
RECURSIVE scheduleInitialReady(_, _, _)
scheduleInitialReady(order, s, sched) ==
  IF order = <<>> THEN [s |-> s, scheduled |-> sched]
  ELSE LET level == Head(order)
           taskGroup == s.waiting[level]
       IN IF Len(taskGroup) # 0 /\ isTaskGroupReady(s.deps, taskGroup, sched)
          THEN With(scheduleTaskGroup(s, level, sched),
                    LAMBDA r : scheduleInitialReady(Tail(order), r.s, r.scheduled))
          ELSE scheduleInitialReady(Tail(order), s, sched)

\* the levels checkAndScheduleNewReady can release: it releases the first
\* ready group its map iteration meets, which can be any ready group
ReadyLevels(s, sched) ==
  {l \in DOMAIN s.waiting : isTaskGroupReady(s.deps, s.waiting[l], sched)}

\* executeSublate: the kernel looked up in package kernels and applied to
\* PayloadProp; an error for an opcode without a kernel
executeSublate(sublate) ==
  LET kernelFn == GetKernel(sublate.KernelID)
  IN IF kernelFn = NilKernel THEN [err |-> "UnknownKernel", sublate |-> sublate]
     ELSE [err |-> Nil,
           sublate |-> [sublate EXCEPT
                          !.PayloadProp = With(sublate.PayloadProp,
                                               LAMBDA data : CallKernel(kernelFn, data))]]

\* runSequentialExecution from sublate i on, as one computation
RECURSIVE runSequentialExecution(_, _)
runSequentialExecution(subs, i) ==
  IF i > Len(subs) THEN [err |-> Nil, sublates |-> subs]
  ELSE With(With(subs[i], LAMBDA sub : executeSublate(sub)),
            LAMBDA r :
              IF r.err # Nil THEN [err |-> r.err, sublates |-> subs]
              ELSE With([subs EXCEPT ![i] = SwapBuffers(r.sublate)],
                        LAMBDA next : runSequentialExecution(next, i + 1)))

\* updateKernelStats
updateKernelStats(st, kernelID) ==
  [st EXCEPT !.KernelExecutions = [@ EXCEPT ![kernelID] = @ + 1]]

\* updateExecutionStats, and the same update at the end of Run
updateExecutionStatsOnce(st, o) ==
  IF o.EnableStats /\ st.TotalExecutions = 0
  THEN [st EXCEPT !.TotalExecutions = @ + 1] ELSE st

updateExecutionStats(st, o) ==
  IF o.EnableStats THEN [st EXCEPT !.TotalExecutions = @ + 1] ELSE st

\* the loop of Run from sublate i on: kernel on PayloadProp, the kernel
\* count, SwapBuffers; an unknown opcode ends it with what was done so far
RECURSIVE RunLoop(_, _, _, _)
RunLoop(subs, i, st, o) ==
  IF i > Len(subs) THEN [err |-> Nil, sublates |-> subs, stats |-> st]
  ELSE With(With(subs[i], LAMBDA sub : executeSublate(sub)),
            LAMBDA r :
              IF r.err # Nil THEN [err |-> r.err, sublates |-> subs, stats |-> st]
              ELSE With([subs EXCEPT ![i] = SwapBuffers(r.sublate)],
                        LAMBDA next :
                          RunLoop(next, i + 1,
                                  IF o.EnableStats
                                  THEN updateKernelStats(st, subs[i].KernelID) ELSE st,
                                  o)))

\* Run
Run(subs, st, o) ==
  With(RunLoop(subs, 1, st, o),
       LAMBDA r : IF r.err # Nil THEN r
                  ELSE [r EXCEPT !.stats = updateExecutionStats(r.stats, o)])

\* WriteToStreamingInput: the error it returns for data of the given length
\* (the window's bytes are read by nothing the model covers)
WriteToStreamingInputRejectsFull(a, dataLen) ==
  IF a.streamingInput.Size = 0 THEN "NoStreamingRegion"
  ELSE IF dataLen >= a.streamingInput.Size THEN "StreamingOverflow"
  ELSE Nil

WriteToStreamingInput(a, dataLen) ==
  IF a.streamingInput.Size = 0 THEN "NoStreamingRegion"
  ELSE IF dataLen > a.streamingInput.Size THEN "StreamingOverflow"
  ELSE Nil

\* ExecuteStreaming: the error, the sublates and stats after the call, and
\* the output slice after the copy from the first sublate's PayloadProp
ExecuteStreaming(a, subs, st, o, inputLen, output) ==
  LET unchanged(err) == [err |-> err, sublates |-> subs, stats |-> st, output |-> output]
  IN IF ~o.Streaming THEN unchanged("NotStreaming")
     ELSE IF WriteToStreamingInput(a, inputLen) # Nil
          THEN unchanged(WriteToStreamingInput(a, inputLen))
     ELSE With(Run(subs, st, o),
            LAMBDA r :
              IF r.err # Nil
              THEN [err |-> r.err, sublates |-> r.sublates, stats |-> r.stats,
                    output |-> output]
              ELSE [err |-> Nil, sublates |-> r.sublates, stats |-> r.stats,
                    output |-> IF Len(r.sublates) > 0
                               THEN With(r.sublates[1].PayloadProp,
                                      LAMBDA prop :
                                        [i \in 1..Len(output) |->
                                           IF i <= Min(Len(prop), Len(output))
                                           THEN prop[i] ELSE output[i]])
                               ELSE output])

\* the worker's call kernel(buffer[offset:]): the kernel is applied to the
\* arena from offset to its end, which holds every buffer carved at or after
\* offset
WorkerKernelEffect(kernelFn, offset, subs) ==
  LET apply(data, off) ==
        IF off >= offset THEN With(data, LAMBDA d : CallKernel(kernelFn, d)) ELSE data
  IN [i \in DOMAIN subs |->
        [subs[i] EXCEPT !.PayloadPrev = apply(subs[i].PayloadPrev, subs[i].PrevOff),
                        !.PayloadProp = apply(subs[i].PayloadProp, subs[i].PropOff)]]

(***************************************************************************)
(* The .subl file: the compiler's two writers (compiler.go) and the        *)
(* runtime's Load.  A file is the sequence of its bytes.                   *)
(***************************************************************************)
\* model.NodeSize(): the bytes of a serialized node entry
NodeSize == 16
\* unsafe.Sizeof(model.Node{}) on a 64-bit build: ID, In, Out (3 x 2), Kernel
\* (1), padding (1), Flags (4), padding (4), the Topo slice header (3 x 8)
NodeStructSize == 40
\* the offset of the Topo slice header in the struct, and the size of each of
\* its three words (data pointer, len, cap)
TopoHeaderOffset == 16
PointerSize == 8

\* binary.Write of a uint16 and of a uint32, little endian
PutUint16(v) == <<v % 256, (v \div 256) % 256>>
PutUint32(v) == <<v % 256, (v \div 256) % 256, (v \div 65536) % 256, (v \div 16777216) % 256>>

\* binary.LittleEndian.Uint16 and Uint32 of the bytes of b from offset off
Uint16(b, off) == b[off + 1] + 256 * b[off + 2]
Uint32(b, off) == b[off + 1] + 256 * b[off + 2] + 65536 * b[off + 3] + 16777216 * b[off + 4]

\* the sequences of ss written one after the other
RECURSIVE Concat(_)
Concat(ss) == IF ss = <<>> THEN <<>> ELSE Head(ss) \o Concat(Tail(ss))

\* core.Align32 and core.AlignSize
Align32(n) == ((n + 31) \div 32) * 32
AlignSize(size, align) == ((size + align - 1) \div align) * align

\* core.PadToAlignment
PadToAlignment(data, align) == data \o Zeros(AlignSize(Len(data), align) - Len(data))

\* simpleWriter: the 8-byte header, a 16-byte record per node, the payload
\* followed by the padding of the payload's length to a multiple of 32
writeSimpleHeader(g) == PutUint32(Len(g.Nodes)) \o PutUint32(Len(g.Payload))

writeSimpleNodePadding == Zeros(NodeSize - (2 + 1 + 2 + 2 + 4))

writeSimpleNode(node) ==
  PutUint16(node.ID) \o <<node.Kernel>> \o PutUint16(node.In) \o PutUint16(node.Out)
    \o PutUint32(node.Flags) \o writeSimpleNodePadding

writeSimpleNodes(nodes) == Concat([i \in DOMAIN nodes |-> writeSimpleNode(nodes[i])])

writeSimplePayload(payload) == payload \o Zeros(Align32(Len(payload)) - Len(payload))

writeSimpleGraph(g) ==
  writeSimpleHeader(g) \o writeSimpleNodes(g.Nodes) \o writeSimplePayload(g.Payload)

\* binaryWriter (CompileWithOptions): the header starts with the format
\* version 1; each node carries its topology behind a count
writeHeader(g, debugOutput) ==
  PutUint32(1) \o PutUint32(Len(g.Nodes)) \o PutUint32(Len(g.Payload))
    \o PutUint32(IF debugOutput THEN 1 ELSE 0)

writeNodeFields(node) ==
  PutUint16(node.ID) \o <<node.Kernel>> \o PutUint16(node.In) \o PutUint16(node.Out)
    \o PutUint32(node.Flags)

writeNodeTopology(topo) ==
  PutUint16(Len(topo)) \o Concat([i \in DOMAIN topo |-> PutUint16(topo[i])])

writeNodePadding(node) ==
  LET baseSize == 16 + 2 + Len(node.Topo) * 2
  IN Zeros(AlignSize(baseSize, 8) - baseSize)

writeNode(node) == writeNodeFields(node) \o writeNodeTopology(node.Topo) \o writeNodePadding(node)

writeNodes(nodes) == Concat([i \in DOMAIN nodes |-> writeNode(nodes[i])])

writePayload(payload) == PadToAlignment(payload, 32)

writeCompiledGraph(g, debugOutput) ==
  writeHeader(g, debugOutput) \o writeNodes(g.Nodes) \o writePayload(g.Payload)

\* the i-th (from 0) 16-byte node record of a simple-format file, decoded as
\* writeSimpleNode lays it out
SimpleRecord(buf, i) ==
  LET base == 8 + i * NodeSize
  IN [ID |-> Uint16(buf, base), Kernel |-> buf[base + 3], In |-> Uint16(buf, base + 3),
      Out |-> Uint16(buf, base + 5), Flags |-> Uint32(buf, base + 7)]

\* the memory of make([]model.Node, n) after copy(nodesAsBytes(nodes), src):
\* nodesAsBytes is the first n * NodeSize() bytes of the array of structs,
\* which the copy fills; the rest of the array keeps the zeros of make
NodeMemory(n, src) ==
  [m \in 1..(n * NodeStructSize) |-> IF m <= Min(n * NodeSize, Len(src)) THEN src[m] ELSE 0]

\* the i-th (from 0) model.Node read from the memory of the array.  Topo is
\* the slice its header describes: empty when the header's len is 0; with a
\* len other than 0 and a nil data pointer every read of an entry faults
\* (wild).  A header with a len and a pointer other than nil names memory the
\* file chose, which no file here does.
NodeAt(mem, i) ==
  LET base == i * NodeStructSize
      hdr == base + TopoHeaderOffset
      ptrNil == \A k \in 1..PointerSize : mem[hdr + k] = 0
      lenZero == \A k \in 1..PointerSize : mem[hdr + PointerSize + k] = 0
  IN [node |-> [ID |-> Uint16(mem, base), In |-> Uint16(mem, base + 2),
                Out |-> Uint16(mem, base + 4), Kernel |-> mem[base + 7],
                Flags |-> Uint32(mem, base + 8), Topo |-> <<>>],
      wild |-> CASE lenZero -> FALSE
                 [] ~lenZero /\ ptrNil -> TRUE]

\* DefaultEngineOptions with the ArenaSize 0 that Load sets; numCPU is
\* runtime.NumCPU()
LoadOptions(numCPU) ==
  [Workers |-> numCPU, ArenaSize |-> 0, EnableStats |-> FALSE, Streaming |-> TRUE]

\* what Load returns without an engine
LoadFailed(err, g, end) ==
  [err |-> err, fault |-> FALSE, graph |-> g, readEnd |-> end,
   engine |-> [err |-> err, arena |-> NoArena(Nil), sublates |-> <<>>,
               scheduler |-> NoScheduler(g)]]

EmptyGraph == [Nodes |-> <<>>, Payload |-> <<>>]

\* Load of the file whose bytes are buf, once make([]model.Node, nodeCnt)
\* has returned: the error (Nil with an engine), whether the process faulted,
\* the parsed graph, the offset behind the last byte of buf it read, and
\* what NewEngine returned.  The sizes are compared without forming sums
\* that a header near 2^31 would carry out of the integers.
Load(buf, numCPU) ==
  IF Len(buf) < 8 THEN LoadFailed("TooSmall", EmptyGraph, 0)
  ELSE \* 8 bytes of header read
    LET nodeCnt == Uint32(buf, 0)
        payloadLen == Uint32(buf, 4)
        read == 8
    IN IF \/ nodeCnt > Len(buf)
          \/ payloadLen > Len(buf)
          \/ Len(buf) < read + nodeCnt * NodeSize + payloadLen
       THEN LoadFailed("InconsistentSizes", EmptyGraph, read)
       ELSE With(nodeCnt * NodeSize,
              LAMBDA copySize :
                With(NodeMemory(nodeCnt, SubSeq(buf, read + 1, read + copySize)),
                  LAMBDA mem :
                    With([Nodes |-> [i \in 1..nodeCnt |-> NodeAt(mem, i - 1).node],
                          Payload |-> SubSeq(buf, read + copySize + 1,
                                             read + copySize + payloadLen)],
                      LAMBDA g :
                        IF \E i \in 1..nodeCnt : NodeAt(mem, i - 1).wild
                        THEN [LoadFailed("Fault", g, read + copySize + payloadLen)
                                EXCEPT !.fault = TRUE]
                        ELSE With(NewEngine(g, LoadOptions(numCPU)),
                               LAMBDA e : [err |-> e.err, fault |-> FALSE, graph |-> g,
                                           readEnd |-> read + copySize + payloadLen,
                                           engine |-> e]))))

(***************************************************************************)
(* model.Graph.Validate.                                                   *)
(***************************************************************************)
\* the loop of Validate from node i on, ids being the ids seen before it: the
\* node's id joins ids before its topology is looked at
RECURSIVE ValidateFrom(_, _, _)
ValidateFrom(g, i, ids) ==
  IF i > Len(g.Nodes) THEN Nil
  ELSE LET node == g.Nodes[i]
           seen == ids \cup {node.ID}
       IN IF node.ID \in ids THEN "DuplicateID"
          ELSE IF \E k \in DOMAIN node.Topo :
                    node.Topo[k] # Sentinel /\ node.Topo[k] \notin seen
               THEN "UnknownNeighbor"
          ELSE IF node.Out >= Len(g.Payload) THEN "OutputOutOfRange"
          ELSE ValidateFrom(g, i + 1, seen)

Validate(g) == IF Len(g.Nodes) = 0 THEN "NoNodes" ELSE ValidateFrom(g, 1, {})

(***************************************************************************)
(* The state.                                                              *)
(***************************************************************************)
VARIABLES
  graph,      \* the model.Graph the engine is built from
  opts,       \* EngineOptions
  phase,      \* "new", "built" (NewEngine returned an engine), "failed"
  buildErr,   \* the error NewEngine returned
  arena,      \* the arena the sublates live in
  sublates,   \* e.sublates
  sched,      \* e.scheduler
  pass,       \* number of Execute calls begun
  epc,        \* where the calling goroutine is inside Execute ("idle": outside)
  seqIdx,     \* index of the sublate runSequentialExecution is at
  scheduled,  \* the scheduled map of scheduleReady
  hpc,        \* per pass, where its completion handler goroutine is
  wpc,        \* per worker, where it is
  wgroup,     \* per worker, the task group it took
  wsub,       \* per worker, the state of the subtask of each node of the group
  wsent,      \* per worker, how many completions of the group it has posted
  kstarted,   \* per node id, kernel invocations started in the current pass
  kreturned,  \* per node id, kernel invocations returned in the current pass
  swaps,      \* per node index, buffer swaps in the current pass
  lastErr,    \* what the last Execute returned
  panicked,   \* a goroutine panicked: the process is gone
  arenaArgs,     \* the arguments NewArena is called with on its own
  nodeAllocs,    \* the ranges AllocateNodePayload handed out, in call order
  scratchAllocs, \* the ranges AllocateScratch handed out, in call order
  ncalls,        \* number of calls made on the arena under test
  lastCall,      \* the last of these calls and what it returned
  stats,         \* e.stats: TotalExecutions and KernelExecutions
  streamCall,    \* the ExecuteStreaming calls made: their number, and of the
                 \* last one the input length, the error and the output slice
  passesDone,    \* number of passes that have returned nil on the engine
  prevAtEnd,     \* per sequential pass that returned nil, the PayloadPrev of
                 \* every sublate when it returned
  file,          \* the .subl file on disk: who wrote it and its bytes
  loaded,        \* the Load call made on the file and what it returned
  validated,     \* the Validate call made on the graph and what it returned
  localQueues,   \* WorkStealingScheduler: per worker, the items in its channel
  globalQueue,   \* the items in the global channel
  getWork,       \* per worker, where its GetWork call stands
  submitted,     \* the items SubmitWork has put on a queue
  stopped,       \* no more SubmitWork calls will be made
  returned,      \* per item, the number of GetWork calls that returned it
  nilled,        \* the workers GetWork has returned nil to after the last
                 \* submission
  drained,       \* those of them whose call began after the last submission
  stolen,        \* a GetWork call has taken an item from another worker's queue
  allocator,     \* ArenaAllocator: len(buf) and offset
  allocated,     \* the slices that hold a byte which Allocate has returned
                 \* since the last Reset
  lastAllocate,  \* the last Allocate call and how it ended
  optimized,     \* the Optimize call made on the graph and the node list
                 \* it left
  serialized,    \* the Serialize call made on the graph and its bytes
  deserialized   \* the Deserialize call made on these bytes and its result

vars == <<graph, opts, phase, buildErr, arena, sublates, sched, pass, epc, seqIdx,
          scheduled, hpc, wpc, wgroup, wsub, wsent, kstarted, kreturned, swaps,
          lastErr, panicked, arenaArgs, nodeAllocs, scratchAllocs, ncalls, lastCall,
          stats, streamCall, passesDone, prevAtEnd, file, loaded,
          validated, localQueues, globalQueue, getWork, submitted, stopped,
          returned, nilled, drained, stolen, allocator, allocated, lastAllocate,
          optimized, serialized, deserialized>>

apiVars == <<stats, streamCall, passesDone, prevAtEnd>>
fileVars == <<file, loaded, validated>>
stealVars == <<localQueues, globalQueue, getWork, submitted, stopped, returned, nilled,
               drained, stolen>>
\* the state of the runtime's helper types, which the engine does not use
allocVars == <<allocator, allocated, lastAllocate>>
graphVars == <<optimized, serialized, deserialized>>
libVars == <<stealVars, allocVars, graphVars>>

callVars == <<arenaArgs, nodeAllocs, scratchAllocs, ncalls, lastCall>>
engineVars == <<graph, opts, phase, buildErr>>
workerVars == <<wpc, wgroup, wsub, wsent>>
historyVars == <<kstarted, kreturned, swaps>>

\* no arena is under test on its own
NoArgs == [totalSize |-> 0, nodePayloadsSize |-> 0, streamingInputSize |-> 0,
           kernelScratchSize |-> 0]
NoCall == [op |-> "none", size |-> 0, alignment |-> 0, err |-> Nil, off |-> 0]

\* the opcodes of the nodes of g
KernelsOf(g) == {g.Nodes[i].Kernel : i \in DOMAIN g.Nodes}

\* ExecutionStats of createBaseEngine; an opcode missing from the
\* KernelExecutions map counts 0
NoStats(g) == [TotalExecutions |-> 0, KernelExecutions |-> [k \in KernelsOf(g) |-> 0]]

\* no ExecuteStreaming call made yet
NoStreamCall == [n |-> 0, inputLen |-> 0, err |-> Nil, output |-> <<>>]

\* no file written, no Load call made
NoFile == [format |-> "none", bytes |-> <<>>]
NoLoad == [called |-> FALSE, err |-> Nil, graph |-> EmptyGraph, readEnd |-> 0]
\* no Validate call made
NotValidated == [called |-> FALSE, err |-> Nil]

Workers == 1..MaxWorkers
Passes == 1..MaxPasses

(***************************************************************************)
(* WorkStealingScheduler.  An item is a *core.Sublate, written as a        *)
(* number: 1..LocalQueueCap for the items of a backlog, LocalQueueCap + k  *)
(* for the item of the k-th SubmitWork call made after it; a channel is    *)
(* the sequence of the items in it.                                        *)
(***************************************************************************)
\* the capacity of a local queue
LocalQueueCap == 16
\* the capacity of the global queue, per worker
GlobalQueueCapPerWorker == 4

\* NewWorkStealingScheduler
NewWorkStealingScheduler(workers) ==
  [localQueues |-> [w \in 1..workers |-> <<>>], globalQueue |-> <<>>, workers |-> workers]

\* the items a scheduler under test can be given
Items == 1..(LocalQueueCap + MaxSubmissions)

\* the items 1..n in call order
FirstItems(n) == [k \in 1..n |-> k]

\* the number of SubmitWork calls made after the backlog
NewSubmissions(items) == Cardinality(items \ (1..LocalQueueCap))

\* SubmitWork: the select with a default case; the send on the global queue
\* blocks while that queue is full
SubmitWorkBlocks(lq, gq, workerID) ==
  /\ Len(lq[workerID]) >= LocalQueueCap
  /\ Len(gq) >= GlobalQueueCapPerWorker * Cardinality(DOMAIN lq)

SubmitWork(lq, gq, workerID, sublate) ==
  IF Len(lq[workerID]) < LocalQueueCap
  THEN [localQueues |-> [lq EXCEPT ![workerID] = Append(@, sublate)], globalQueue |-> gq]
  ELSE [localQueues |-> lq, globalQueue |-> Append(gq, sublate)]

\* a receive that leaves the item in the channel
ReceiveLeaving(q) == [work |-> Head(q), rest |-> q]

\* work := <-queue on a channel that holds an item
Receive(q) == [work |-> Head(q), rest |-> Tail(q)]

\* the steal loop of GetWork: the index it tries after i, skipping workerID
NextVictim(i, workerID) == IF i + 1 = workerID THEN i + 2 ELSE i + 1

\* no GetWork call in progress
NoGetWork == [pc |-> "idle", i |-> 0, afterStop |-> FALSE]

\* no work-stealing scheduler is under test
StealIdle ==
  /\ localQueues = <<>>
  /\ globalQueue = <<>>
  /\ getWork = <<>>
  /\ submitted = {}
  /\ stopped = FALSE
  /\ returned = <<>>
  /\ nilled = {}
  /\ drained = {}
  /\ stolen = FALSE

(***************************************************************************)
(* ArenaAllocator.  Go's int is a signed machine word: WordBits wide here, *)
(* with sums that wrap around.                                             *)
(***************************************************************************)
\* the largest int
MaxInt == WordModulus \div 2 - 1

\* int addition
WrapInt(x) == ((x + WordModulus \div 2) % WordModulus) - WordModulus \div 2

\* NewArenaAllocator
NewArenaAllocator(size) == [buf |-> size, offset |-> 0]

\* (a.offset + align - 1) &^ (align - 1) for a power of two align
AlignedOffset(offset, align) == (WrapInt(offset + align - 1) \div align) * align

\* Allocate: nil, the slice a.buf[aligned : aligned+size], or the panic of
\* that slice expression when its high bound is below its low bound
Allocate(a, size, align) ==
  LET aligned == AlignedOffset(a.offset, align)
      high == WrapInt(aligned + size)
  IN IF high > a.buf
     THEN [result |-> "nil", start |-> 0, len |-> 0, allocator |-> a]
     ELSE IF high < aligned
     THEN [result |-> "panic", start |-> 0, len |-> 0, allocator |-> a]
     ELSE [result |-> "slice", start |-> aligned, len |-> high - aligned,
           allocator |-> [a EXCEPT !.offset = high]]

\* Reset
Reset(a) == [a EXCEPT !.offset = 0]

\* no Allocate call made
NoAllocate == [result |-> "none", size |-> 0, align |-> 0, before |-> 0, start |-> 0,
               len |-> 0]

\* no ArenaAllocator is under test
AllocIdle ==
  /\ allocator = NewArenaAllocator(0)
  /\ allocated = {}
  /\ lastAllocate = NoAllocate

\* no call made on a model.Graph
NotOptimized == [called |-> FALSE, Nodes |-> <<>>]
NotSerialized == [called |-> FALSE, bytes |-> <<>>]
NotDeserialized == [called |-> FALSE, err |-> Nil, graph |-> EmptyGraph]

GraphIdle ==
  /\ optimized = NotOptimized
  /\ serialized = NotSerialized
  /\ deserialized = NotDeserialized

\* none of the helper types and graph utilities is under test
LibIdle == StealIdle /\ AllocIdle /\ GraphIdle

\* nothing has been called on an engine yet
NothingCalled ==
  /\ phase = "new"
  /\ buildErr = Nil
  /\ arena = NoArena(Nil)
  /\ sublates = <<>>
  /\ sched = NoScheduler(graph)
  /\ pass = 0
  /\ epc = "idle"
  /\ seqIdx = 0
  /\ scheduled = {}
  /\ hpc = [p \in Passes |-> "none"]
  /\ wpc = [w \in Workers |-> "none"]
  /\ wgroup = [w \in Workers |-> <<>>]
  /\ wsub = [w \in Workers |-> <<>>]
  /\ wsent = [w \in Workers |-> 0]
  /\ kstarted = [id \in IdsOf(graph) |-> 0]
  /\ kreturned = [id \in IdsOf(graph) |-> 0]
  /\ swaps = [i \in DOMAIN graph.Nodes |-> 0]
  /\ lastErr = Nil
  /\ panicked = FALSE
  /\ arenaArgs = NoArgs
  /\ nodeAllocs = <<>>
  /\ scratchAllocs = <<>>
  /\ ncalls = 0
  /\ lastCall = NoCall
  /\ stats = NoStats(graph)
  /\ streamCall = NoStreamCall
  /\ passesDone = 0
  /\ prevAtEnd = <<>>
  /\ file = NoFile
  /\ loaded = NoLoad
  /\ validated = NotValidated

\* nothing has been called yet
EngineNotBuilt == NothingCalled /\ LibIdle

Init ==
  /\ graph \in Range(Graphs)
  /\ opts \in [Workers : Workers, ArenaSize : {0, TestArenaSize},
               EnableStats : {FALSE}, Streaming : BOOLEAN]
  /\ EngineNotBuilt

(***************************************************************************)
(* NewEngine (and Load, which calls it with the default options).          *)
(***************************************************************************)
NewEngineCall ==
  /\ phase = "new"
  /\ \E e \in {NewEngine(graph, opts)} :
        /\ phase' = IF e.err = Nil THEN "built" ELSE "failed"
        /\ buildErr' = e.err
        /\ arena' = e.arena
        /\ sublates' = e.sublates
        /\ sched' = e.scheduler
        /\ opts' = [opts EXCEPT !.ArenaSize = EngineArenaSize(graph, opts)]
  /\ UNCHANGED <<graph, pass, epc, seqIdx, scheduled, hpc, lastErr, panicked>>
  /\ UNCHANGED callVars
  /\ UNCHANGED apiVars
  /\ UNCHANGED fileVars
  /\ UNCHANGED workerVars
  /\ UNCHANGED historyVars
  /\ UNCHANGED libVars

(***************************************************************************)
(* Execute.                                                                *)
(***************************************************************************)
\* Execute up to the call of runExecution: a new arena, the sublates
\* initialized again in it, then the mode's entry
ExecuteBegin ==
  /\ phase = "built" /\ epc = "idle" /\ ~panicked /\ pass + streamCall.n < MaxPasses
  /\ pass' = pass + 1
  /\ kstarted' = [id \in IdsOf(graph) |-> 0]
  /\ kreturned' = [id \in IdsOf(graph) |-> 0]
  /\ swaps' = [i \in DOMAIN graph.Nodes |-> 0]
  /\ \E prep \in {prepareExecution(graph, opts)} :
        IF prep.err # Nil
        THEN /\ lastErr' = prep.err
             /\ UNCHANGED <<arena, sublates, epc, seqIdx>>
        ELSE /\ arena' = prep.arena
             /\ sublates' = prep.sublates
             /\ IF opts.Streaming /\ ~sched.built
                THEN lastErr' = "SchedulerNotInitialized" /\ UNCHANGED <<epc, seqIdx>>
                ELSE /\ epc' = IF opts.Streaming THEN "runStreaming" ELSE "sequential"
                     /\ seqIdx' = 1
                     /\ UNCHANGED lastErr
  /\ UNCHANGED <<sched, scheduled, hpc, panicked>>
  /\ UNCHANGED engineVars
  /\ UNCHANGED callVars
  /\ UNCHANGED apiVars
  /\ UNCHANGED fileVars
  /\ UNCHANGED workerVars
  /\ UNCHANGED libVars

\* runSequentialExecution, one sublate: executeSublate
SeqExecuteSublate ==
  /\ epc = "sequential" /\ ~panicked /\ seqIdx <= Len(sublates)
  /\ \E r \in {executeSublate(sublates[seqIdx])}, id \in {graph.Nodes[seqIdx].ID} :
        IF r.err # Nil
        THEN /\ lastErr' = r.err
             /\ epc' = "idle"
             /\ UNCHANGED <<sublates, kstarted, kreturned, stats>>
        ELSE /\ sublates' = [sublates EXCEPT ![seqIdx] = r.sublate]
             /\ kstarted' = [kstarted EXCEPT ![id] = @ + 1]
             /\ kreturned' = [kreturned EXCEPT ![id] = @ + 1]
             /\ stats' = IF opts.EnableStats
                          THEN updateKernelStats(stats, sublates[seqIdx].KernelID)
                          ELSE stats
             /\ epc' = "seqSwap"
             /\ UNCHANGED lastErr
  /\ UNCHANGED <<arena, sched, pass, seqIdx, scheduled, hpc, swaps, panicked>>
  /\ UNCHANGED <<streamCall, passesDone, prevAtEnd>>
  /\ UNCHANGED fileVars
  /\ UNCHANGED engineVars
  /\ UNCHANGED callVars
  /\ UNCHANGED workerVars
  /\ UNCHANGED libVars

\* runSequentialExecution, one sublate: SwapBuffers after the kernel
SeqSwapBuffers ==
  /\ epc = "seqSwap" /\ ~panicked
  /\ sublates' = [sublates EXCEPT ![seqIdx] = SwapBuffers(@)]
  /\ swaps' = [swaps EXCEPT ![seqIdx] = @ + 1]
  /\ seqIdx' = seqIdx + 1
  /\ epc' = "sequential"
  /\ UNCHANGED <<arena, sched, pass, scheduled, hpc, kstarted, kreturned, lastErr, panicked>>
  /\ UNCHANGED engineVars
  /\ UNCHANGED callVars
  /\ UNCHANGED apiVars
  /\ UNCHANGED fileVars
  /\ UNCHANGED workerVars
  /\ UNCHANGED libVars

\* runSequentialExecution returns nil after the last sublate; Execute then
\* returns what updateExecutionStats returns
SeqReturn ==
  /\ epc = "sequential" /\ ~panicked /\ seqIdx > Len(sublates)
  /\ lastErr' = Nil
  /\ epc' = "idle"
  /\ stats' = updateExecutionStats(stats, opts)
  /\ passesDone' = passesDone + 1
  /\ UNCHANGED <<arena, sublates, sched, pass, seqIdx, scheduled, hpc, panicked>>
  /\ prevAtEnd' = Append(prevAtEnd, [n \in DOMAIN sublates |-> sublates[n].PayloadPrev])
  /\ UNCHANGED streamCall
  /\ UNCHANGED fileVars
  /\ UNCHANGED engineVars
  /\ UNCHANGED callVars
  /\ UNCHANGED workerVars
  /\ UNCHANGED historyVars
  /\ UNCHANGED libVars

(***************************************************************************)
(* Streaming mode: runStreaming (the calling goroutine), the completion    *)
(* handler goroutine, the workers and the subtask goroutines of a group.   *)
(***************************************************************************)
\* runStreaming: the loop that starts e.workers worker goroutines
RunStreamingSpawn ==
  /\ epc = "runStreaming" /\ ~panicked
  /\ wpc' = [w \in Workers |-> IF w <= opts.Workers THEN "recv" ELSE "none"]
  /\ wgroup' = [w \in Workers |-> <<>>]
  /\ wsub' = [w \in Workers |-> <<>>]
  /\ wsent' = [w \in Workers |-> 0]
  /\ epc' = "scheduleReady"
  /\ UNCHANGED <<arena, sublates, sched, pass, seqIdx, scheduled, hpc, lastErr, panicked>>
  /\ UNCHANGED engineVars
  /\ UNCHANGED callVars
  /\ UNCHANGED apiVars
  /\ UNCHANGED fileVars
  /\ UNCHANGED historyVars
  /\ UNCHANGED libVars

\* scheduleReady, first half: a new scheduled map and scheduleInitialReady,
\* which ranges over the waiting map in an order the Go runtime chooses.
\* Sending a group on the closed ready channel panics.
ScheduleInitialReady ==
  /\ epc = "scheduleReady" /\ ~panicked
  /\ \E order \in Orders(DOMAIN sched.waiting) :
       \E r \in {scheduleInitialReady(order, sched, {})} :
          /\ sched' = r.s
          /\ scheduled' = r.scheduled
          /\ panicked' = (sched.closed /\ r.s.ready # sched.ready)
  /\ epc' = "startHandler"
  /\ UNCHANGED <<arena, sublates, pass, seqIdx, hpc, lastErr>>
  /\ UNCHANGED engineVars
  /\ UNCHANGED callVars
  /\ UNCHANGED apiVars
  /\ UNCHANGED fileVars
  /\ UNCHANGED workerVars
  /\ UNCHANGED historyVars
  /\ UNCHANGED libVars

\* scheduleReady, second half: startCompletionHandler starts the handler
\* goroutine; runStreaming goes on to wg.Wait()
StartCompletionHandler ==
  /\ epc = "startHandler" /\ ~panicked
  /\ hpc' = [hpc EXCEPT ![pass] = "loop"]
  /\ epc' = "wait"
  /\ UNCHANGED <<arena, sublates, sched, pass, seqIdx, scheduled, lastErr, panicked>>
  /\ UNCHANGED engineVars
  /\ UNCHANGED callVars
  /\ UNCHANGED apiVars
  /\ UNCHANGED fileVars
  /\ UNCHANGED workerVars
  /\ UNCHANGED historyVars
  /\ UNCHANGED libVars

\* the handler, one round of its loop: it receives a completion, marks the
\* node scheduled and releases at most one ready group
HandlerReceive(p) ==
  /\ hpc[p] = "loop" /\ ~panicked
  /\ DOMAIN sched.waiting # {}
  /\ sched.completed # <<>>
  /\ LET nodeID == Head(sched.completed)
         marked == scheduled \cup {nodeID}
         s1 == [sched EXCEPT !.completed = Tail(@)]
     IN IF ReadyLevels(s1, marked) = {}
        THEN sched' = s1 /\ scheduled' = marked
        ELSE \E level \in ReadyLevels(s1, marked) :
               LET r == scheduleTaskGroup(s1, level, marked)
               IN sched' = r.s /\ scheduled' = r.scheduled
  /\ UNCHANGED <<arena, sublates, pass, epc, seqIdx, hpc, lastErr, panicked>>
  /\ UNCHANGED engineVars
  /\ UNCHANGED callVars
  /\ UNCHANGED apiVars
  /\ UNCHANGED fileVars
  /\ UNCHANGED workerVars
  /\ UNCHANGED historyVars
  /\ UNCHANGED libVars

\* the handler leaves its loop when the waiting map is empty; its deferred
\* close(ready) panics when the channel is closed already
HandlerClose(p) ==
  /\ hpc[p] = "loop" /\ ~panicked
  /\ DOMAIN sched.waiting = {}
  /\ IF sched.closed
     THEN /\ panicked' = TRUE
          /\ hpc' = [hpc EXCEPT ![p] = "panicked"]
          /\ UNCHANGED sched
     ELSE /\ sched' = [sched EXCEPT !.closed = TRUE]
          /\ hpc' = [hpc EXCEPT ![p] = "exited"]
          /\ UNCHANGED panicked
  /\ UNCHANGED <<arena, sublates, pass, epc, seqIdx, scheduled, lastErr>>
  /\ UNCHANGED engineVars
  /\ UNCHANGED callVars
  /\ UNCHANGED apiVars
  /\ UNCHANGED fileVars
  /\ UNCHANGED workerVars
  /\ UNCHANGED historyVars
  /\ UNCHANGED libVars

\* a worker takes the next group from the ready channel and starts one
\* subtask goroutine per node of the group
WorkerReceive(w) ==
  /\ wpc[w] = "recv" /\ ~panicked
  /\ sched.ready # <<>>
  /\ sched' = [sched EXCEPT !.ready = Tail(@)]
  /\ wgroup' = [wgroup EXCEPT ![w] = Head(sched.ready)]
  /\ wsub' = [wsub EXCEPT ![w] = [k \in DOMAIN Head(sched.ready) |-> "spawned"]]
  /\ wsent' = [wsent EXCEPT ![w] = 0]
  /\ wpc' = [wpc EXCEPT ![w] = "run"]
  /\ UNCHANGED <<arena, sublates, pass, epc, seqIdx, scheduled, hpc, lastErr, panicked>>
  /\ UNCHANGED engineVars
  /\ UNCHANGED callVars
  /\ UNCHANGED apiVars
  /\ UNCHANGED fileVars
  /\ UNCHANGED historyVars
  /\ UNCHANGED libVars

\* the range over the ready channel ends when it is closed and drained
WorkerExit(w) ==
  /\ wpc[w] = "recv" /\ ~panicked
  /\ sched.ready = <<>> /\ sched.closed
  /\ wpc' = [wpc EXCEPT ![w] = "exited"]
  /\ UNCHANGED <<arena, sublates, sched, pass, epc, seqIdx, scheduled, hpc, lastErr, panicked>>
  /\ UNCHANGED <<wgroup, wsub, wsent>>
  /\ UNCHANGED engineVars
  /\ UNCHANGED callVars
  /\ UNCHANGED apiVars
  /\ UNCHANGED fileVars
  /\ UNCHANGED historyVars
  /\ UNCHANGED libVars

\* a subtask: it looks its kernel up in kernelCatalog and invokes it on
\* buffer[n.Out:] when n.Out lies inside the arena buffer
KernelStart(w, k) ==
  /\ wpc[w] = "run" /\ ~panicked
  /\ k \in DOMAIN wsub[w] /\ wsub[w][k] = "spawned"
  /\ LET n == wgroup[w][k]
     IN IF kernelCatalog(n.Kernel) # NilKernel /\ n.Out < arena.totalSize
        THEN /\ wsub' = [wsub EXCEPT ![w][k] = "running"]
             /\ kstarted' = [kstarted EXCEPT ![n.ID] = @ + 1]
        ELSE /\ wsub' = [wsub EXCEPT ![w][k] = "done"]
             /\ UNCHANGED kstarted
  /\ UNCHANGED <<arena, sublates, sched, pass, epc, seqIdx, scheduled, hpc, lastErr, panicked>>
  /\ UNCHANGED <<wpc, wgroup, wsent, kreturned, swaps>>
  /\ UNCHANGED engineVars
  /\ UNCHANGED callVars
  /\ UNCHANGED apiVars
  /\ UNCHANGED fileVars
  /\ UNCHANGED libVars

\* the kernel of a subtask returns
KernelReturn(w, k) ==
  /\ wpc[w] = "run" /\ ~panicked
  /\ k \in DOMAIN wsub[w] /\ wsub[w][k] = "running"
  /\ LET n == wgroup[w][k]
     IN /\ sublates' = WorkerKernelEffect(kernelCatalog(n.Kernel), n.Out, sublates)
        /\ kreturned' = [kreturned EXCEPT ![n.ID] = @ + 1]
  /\ wsub' = [wsub EXCEPT ![w][k] = "done"]
  /\ UNCHANGED <<arena, sched, pass, epc, seqIdx, scheduled, hpc, lastErr, panicked>>
  /\ UNCHANGED <<wpc, wgroup, wsent, kstarted, swaps>>
  /\ UNCHANGED engineVars
  /\ UNCHANGED callVars
  /\ UNCHANGED apiVars
  /\ UNCHANGED fileVars
  /\ UNCHANGED libVars

\* after groupWg.Wait() the worker posts the id of each node of the group to
\* the completed channel, one send at a time, then takes the next group
WorkerSignal(w) ==
  /\ wpc[w] = "run" /\ ~panicked
  /\ \A k \in DOMAIN wsub[w] : wsub[w][k] = "done"
  /\ Len(sched.completed) < ChanCap(graph)
  /\ sched' = [sched EXCEPT !.completed = Append(@, wgroup[w][wsent[w] + 1].ID)]
  /\ wsent' = [wsent EXCEPT ![w] = @ + 1]
  /\ wpc' = [wpc EXCEPT ![w] = IF wsent[w] + 1 = Len(wgroup[w]) THEN "recv" ELSE "run"]
  /\ UNCHANGED <<arena, sublates, pass, epc, seqIdx, scheduled, hpc, lastErr, panicked>>
  /\ UNCHANGED <<wgroup, wsub>>
  /\ UNCHANGED engineVars
  /\ UNCHANGED callVars
  /\ UNCHANGED apiVars
  /\ UNCHANGED fileVars
  /\ UNCHANGED historyVars
  /\ UNCHANGED libVars

\* wg.Wait() returns when every worker has exited; runStreaming returns and
\* Execute returns what updateExecutionStats returns
WaitReturn ==
  /\ epc = "wait" /\ ~panicked
  /\ \A w \in 1..opts.Workers : wpc[w] = "exited"
  /\ lastErr' = Nil
  /\ epc' = "idle"
  /\ stats' = updateExecutionStats(stats, opts)
  /\ passesDone' = passesDone + 1
  /\ UNCHANGED <<arena, sublates, sched, pass, seqIdx, scheduled, hpc, panicked>>
  /\ UNCHANGED <<streamCall, prevAtEnd>>
  /\ UNCHANGED fileVars
  /\ UNCHANGED engineVars
  /\ UNCHANGED callVars
  /\ UNCHANGED workerVars
  /\ UNCHANGED historyVars
  /\ UNCHANGED libVars

(***************************************************************************)
(* ExecuteStreaming, called between passes: the caller's input has one of  *)
(* the lengths around the size of the StreamingInput region, its output    *)
(* slice is filled with OutputFill before the call.                        *)
(***************************************************************************)
OutputFill == 255
OutputLens == {16, 128}
InputLens(a) == {0, a.streamingInput.Size, a.streamingInput.Size + 1}

ExecuteStreamingCall(inputLen, outputLen) ==
  /\ phase = "built" /\ epc = "idle" /\ ~panicked /\ pass + streamCall.n < MaxPasses
  /\ \E r \in {ExecuteStreaming(arena, sublates, stats, opts, inputLen,
                                 [i \in 1..outputLen |-> OutputFill])} :
        /\ sublates' = r.sublates
        /\ stats' = r.stats
        /\ streamCall' = [n |-> streamCall.n + 1, inputLen |-> inputLen, err |-> r.err,
                          output |-> r.output]
        /\ passesDone' = IF r.err = Nil THEN passesDone + 1 ELSE passesDone
  /\ UNCHANGED <<arena, sched, pass, epc, seqIdx, scheduled, hpc, lastErr, panicked,
                 prevAtEnd>>
  /\ UNCHANGED engineVars
  /\ UNCHANGED callVars
  /\ UNCHANGED workerVars
  /\ UNCHANGED historyVars
  /\ UNCHANGED fileVars
  /\ UNCHANGED libVars

StreamStep ==
  \/ RunStreamingSpawn
  \/ ScheduleInitialReady
  \/ StartCompletionHandler
  \/ \E p \in Passes : HandlerReceive(p)
  \/ \E p \in Passes : HandlerClose(p)
  \/ \E w \in Workers : WorkerReceive(w)
  \/ \E w \in Workers : WorkerExit(w)
  \/ \E w \in Workers : \E k \in 1..Len(wgroup[w]) : KernelStart(w, k)
  \/ \E w \in Workers : \E k \in 1..Len(wgroup[w]) : KernelReturn(w, k)
  \/ \E w \in Workers : WorkerSignal(w)
  \/ WaitReturn

Next ==
  \/ NewEngineCall
  \/ ExecuteBegin
  \/ SeqExecuteSublate
  \/ SeqSwapBuffers
  \/ SeqReturn
  \/ StreamStep

Spec == Init /\ [][Next]_vars

\* the Go scheduler runs every goroutine that can take a step
FairSpec == Spec /\ WF_vars(StreamStep)

(***************************************************************************)
(* An engine with one worker, with or without statistics, on which Execute *)
(* and ExecuteStreaming are called in any order.                           *)
(***************************************************************************)
\* one no-op node; a chain of two ReLU nodes; the diamond; an opcode that
\* nothing registered
ApiGraphs == {Graphs[1], Graphs[2], Graphs[4], Graphs[10]}

ApiInit ==
  /\ graph \in ApiGraphs
  /\ opts \in [Workers : {1}, ArenaSize : {0, TestArenaSize},
               EnableStats : BOOLEAN, Streaming : BOOLEAN]
  /\ EngineNotBuilt

ApiNext ==
  \/ Next
  \/ \E inputLen \in InputLens(arena) : \E outputLen \in OutputLens :
        ExecuteStreamingCall(inputLen, outputLen)

ApiSpec == ApiInit /\ [][ApiNext]_vars

(***************************************************************************)
(* The compiler writes a graph to a file (Compile in the simple format,    *)
(* CompileWithOptions in the optimized one), the file may be cut short or  *)
(* hold a header somebody else wrote, and Load reads it.  The graphs have  *)
(* Flags 0 and at most five nodes, so that every Topo slice header the     *)
(* copy of Load fills has a len of 0 or a nil data pointer.                *)
(***************************************************************************)
Payload40 == [i \in 1..40 |-> 170 + i]

FileGraphs == {
  \* one no-op node: every byte of its record is 0
  [Nodes |-> <<Node(0, 0, 0, OpNoop, <<>>)>>, Payload |-> Payload16],
  \* one ReLU node
  [Nodes |-> <<Node(0, 0, 0, OpReLU, <<>>)>>, Payload |-> Payload40],
  \* a chain of two
  [Nodes |-> <<Node(0, 0, 0, OpReLU, <<>>), Node(1, 0, 8, OpNoop, <<0>>)>>,
   Payload |-> Payload16],
  \* a diamond
  [Nodes |-> <<Node(0, 0, 0, OpNoop, <<>>), Node(1, 0, 0, OpReLU, <<0>>),
               Node(2, 0, 0, OpNoop, <<0>>), Node(3, 0, 0, OpReLU, <<1, 2>>)>>,
   Payload |-> Payload16],
  \* a chain of five
  [Nodes |-> <<Node(0, 0, 0, OpReLU, <<>>), Node(1, 0, 0, OpReLU, <<0>>),
               Node(2, 0, 0, OpReLU, <<1>>), Node(3, 0, 0, OpReLU, <<2>>),
               Node(4, 0, 0, OpReLU, <<3>>)>>,
   Payload |-> Payload16] }

\* the largest uint32 the header fields of a file written by hand take here
\* (0x7FFFFFFF)
HugeCount == 2147483647
HeaderNodeCounts == {0, 1, HugeCount}
HeaderPayloadLens == {0, 5, HugeCount}
BodyLens == {0, 16, 21}
\* the lengths a file is cut to: a length, or below 0 the number of bytes lost
Cuts == {0, 7, 8, -1}
CutLen(f, c) == IF c < 0 THEN Len(f.bytes) + c ELSE c

\* make([]model.Node, nodeCnt) comes before Load has compared the header with
\* the length of the file; it asks for nodeCnt * 40 bytes.  Up to
\* MaxNodesAllocated nodes the allocation succeeds; a larger one succeeds or
\* ends the process (fatal error: out of memory), by the memory of the machine
makeNodes(buf) ==
  IF Len(buf) >= 8 /\ Uint32(buf, 0) > MaxNodesAllocated THEN {"ok", "fatal"} ELSE {"ok"}

FileInit ==
  /\ graph \in FileGraphs
  /\ opts \in {LoadOptions(n) : n \in Workers}
  /\ EngineNotBuilt

\* everything but the file
notFile == <<graph, opts, phase, buildErr, arena, sublates, sched, pass, epc, seqIdx,
             scheduled, hpc, lastErr, panicked, loaded, validated>>

\* Compile
CompileCall ==
  /\ file.format = "none"
  /\ file' = [format |-> "simple", bytes |-> writeSimpleGraph(graph)]
  /\ UNCHANGED notFile
  /\ UNCHANGED <<callVars, apiVars, workerVars, historyVars>>
  /\ UNCHANGED libVars

\* CompileWithOptions
CompileWithOptionsCall(debugOutput) ==
  /\ file.format = "none"
  /\ file' = [format |-> "optimized", bytes |-> writeCompiledGraph(graph, debugOutput)]
  /\ UNCHANGED notFile
  /\ UNCHANGED <<callVars, apiVars, workerVars, historyVars>>
  /\ UNCHANGED libVars

\* a file not written by the compiler: a header and a body of zeros
WriteFile(nodeCnt, payloadLen, bodyLen) ==
  /\ file.format = "none"
  /\ file' = [format |-> "other",
              bytes |-> PutUint32(nodeCnt) \o PutUint32(payloadLen) \o Zeros(bodyLen)]
  /\ UNCHANGED notFile
  /\ UNCHANGED <<callVars, apiVars, workerVars, historyVars>>
  /\ UNCHANGED libVars

\* the file the compiler wrote loses its end
CutFile(c) ==
  /\ file.format \in {"simple", "optimized"} /\ ~loaded.called
  /\ file' = [format |-> "cut", bytes |-> SubSeq(file.bytes, 1, CutLen(file, c))]
  /\ UNCHANGED notFile
  /\ UNCHANGED <<callVars, apiVars, workerVars, historyVars>>
  /\ UNCHANGED libVars

\* Load(path)
LoadCall ==
  /\ phase = "new" /\ file.format # "none" /\ ~loaded.called
  /\ \E made \in makeNodes(file.bytes) :
       IF made = "fatal"
       THEN /\ panicked' = TRUE
            /\ loaded' = [called |-> TRUE, err |-> "OutOfMemory", graph |-> EmptyGraph,
                          readEnd |-> 8]
            /\ UNCHANGED <<opts, phase, buildErr, arena, sublates, sched>>
       ELSE \E r \in {Load(file.bytes, opts.Workers)} :
              /\ panicked' = r.fault
              /\ loaded' = [called |-> TRUE, err |-> r.err, graph |-> r.graph,
                            readEnd |-> r.readEnd]
              /\ phase' = IF r.fault THEN phase ELSE IF r.err = Nil THEN "built" ELSE "failed"
              /\ buildErr' = r.engine.err
              /\ arena' = r.engine.arena
              /\ sublates' = r.engine.sublates
              /\ sched' = r.engine.scheduler
              /\ opts' = IF r.err = Nil
                         THEN [opts EXCEPT !.ArenaSize = EngineArenaSize(r.graph, opts)]
                         ELSE opts
  /\ UNCHANGED <<graph, file, validated, pass, epc, seqIdx, scheduled, hpc, lastErr>>
  /\ UNCHANGED <<callVars, apiVars, workerVars, historyVars>>
  /\ UNCHANGED libVars

FileNext ==
  \/ CompileCall
  \/ \E debugOutput \in BOOLEAN : CompileWithOptionsCall(debugOutput)
  \/ \E nodeCnt \in HeaderNodeCounts : \E payloadLen \in HeaderPayloadLens :
       \E bodyLen \in BodyLens : WriteFile(nodeCnt, payloadLen, bodyLen)
  \/ \E c \in Cuts : CutFile(c)
  \/ LoadCall

FileSpec == FileInit /\ [][FileNext]_vars

(***************************************************************************)
(* Validate, called on graphs of up to MaxGraphNodes nodes over a payload  *)
(* of 16 bytes: ids that repeat or not, output offsets below, at and above *)
(* the length of the payload, topologies that name a node listed earlier   *)
(* or later, the node itself, the sentinel, or no node.                    *)
(***************************************************************************)
ValidateIds == {0, 1}
ValidateOuts == {8, 16, 24}
ValidateTopos == {<<>>, <<Sentinel>>, <<9>>} \cup {<<id>> : id \in ValidateIds}
ValidateNodes ==
  {[ID |-> id, In |-> 0, Out |-> out, Kernel |-> OpNoop, Flags |-> 0, Topo |-> topo] :
     id \in ValidateIds, out \in ValidateOuts, topo \in ValidateTopos}
ValidateGraphs ==
  {[Nodes |-> nodes, Payload |-> Payload16] :
     nodes \in UNION {[1..n -> ValidateNodes] : n \in 1..MaxGraphNodes}}

ValidateInit ==
  /\ graph \in ValidateGraphs
  /\ opts = LoadOptions(1)
  /\ EngineNotBuilt

\* g.Validate()
ValidateCall ==
  /\ ~validated.called
  /\ validated' = [called |-> TRUE, err |-> Validate(graph)]
  /\ UNCHANGED <<graph, opts, phase, buildErr, arena, sublates, sched, pass, epc, seqIdx,
                 scheduled, hpc, lastErr, panicked, file, loaded>>
  /\ UNCHANGED <<callVars, apiVars, workerVars, historyVars>>
  /\ UNCHANGED libVars

ValidateNext == ValidateCall

ValidateSpec == ValidateInit /\ [][ValidateNext]_vars

(***************************************************************************)
(* An arena on its own, as the arena tests drive it: NewArena with sizes   *)
(* the caller picks, then allocations from its two bump allocators and     *)
(* resets of the scratch allocator.                                        *)
(***************************************************************************)
\* graphs NewArena is given: without nodes and payload, with a payload
\* only, with one node, with four nodes
ArenaGraphs ==
  {[Nodes |-> <<>>, Payload |-> <<>>], [Nodes |-> <<>>, Payload |-> Payload16],
   Graphs[11], Graphs[4]}

\* sizes the caller passes: 0 (take the minimum), one that is too small, a
\* multiple of 32 that is no multiple of 64, the tests' size
TotalSizes == {0, 1, 1056, TestArenaSize}
NodePayloadsSizes == {0, 100}
StreamingInputSizes == {0, 64}
KernelScratchSizes == {0, 96}

\* requests: small sizes, the cache line, and a size near the top of the word
NodeRequestSizes == {24, CacheLineSize, WordModulus - 8}
NodeRequestAlignments == {0, 16, CacheLineSize}
ScratchRequestSizes == {32, CacheLineSize}
ScratchRequestAlignments == {8}

ArenaInit ==
  /\ graph \in ArenaGraphs
  /\ arenaArgs \in [totalSize : TotalSizes, nodePayloadsSize : NodePayloadsSizes,
                    streamingInputSize : StreamingInputSizes,
                    kernelScratchSize : KernelScratchSizes]
  /\ opts = [Workers |-> 1, ArenaSize |-> 0, EnableStats |-> FALSE, Streaming |-> FALSE]
  /\ phase = "arena"
  /\ buildErr = Nil
  /\ arena = NoArena(Nil)
  /\ sublates = <<>>
  /\ sched = NoScheduler(graph)
  /\ pass = 0
  /\ epc = "idle"
  /\ seqIdx = 0
  /\ scheduled = {}
  /\ hpc = [p \in Passes |-> "none"]
  /\ wpc = [w \in Workers |-> "none"]
  /\ wgroup = [w \in Workers |-> <<>>]
  /\ wsub = [w \in Workers |-> <<>>]
  /\ wsent = [w \in Workers |-> 0]
  /\ kstarted = [id \in IdsOf(graph) |-> 0]
  /\ kreturned = [id \in IdsOf(graph) |-> 0]
  /\ swaps = [i \in DOMAIN graph.Nodes |-> 0]
  /\ lastErr = Nil
  /\ panicked = FALSE
  /\ nodeAllocs = <<>>
  /\ scratchAllocs = <<>>
  /\ ncalls = 0
  /\ lastCall = NoCall
  /\ stats = NoStats(graph)
  /\ streamCall = NoStreamCall
  /\ passesDone = 0
  /\ prevAtEnd = <<>>
  /\ file = NoFile
  /\ loaded = NoLoad
  /\ validated = NotValidated
  /\ LibIdle

engineState == <<opts, phase, buildErr, sublates, sched, pass, epc, seqIdx, scheduled,
                 hpc, lastErr>>

\* NewArena returned an arena and no call on it has panicked
ArenaLive == lastCall.op # "none" /\ arena.err = Nil /\ ~panicked /\ ncalls < MaxCalls

NewArenaCall ==
  /\ phase = "arena" /\ lastCall.op = "none"
  /\ \E a \in {NewArena(arenaArgs.totalSize, graph, arenaArgs.nodePayloadsSize,
                        arenaArgs.streamingInputSize, arenaArgs.kernelScratchSize)} :
        /\ arena' = a
        /\ lastCall' = [NoCall EXCEPT !.op = "NewArena", !.err = a.err]
  /\ UNCHANGED <<graph, arenaArgs, nodeAllocs, scratchAllocs, ncalls, panicked>>
  /\ UNCHANGED engineState
  /\ UNCHANGED apiVars
  /\ UNCHANGED fileVars
  /\ UNCHANGED workerVars
  /\ UNCHANGED historyVars
  /\ UNCHANGED libVars

AllocateNodePayloadCall(size, alignment) ==
  /\ phase = "arena" /\ ArenaLive
  /\ \E r \in {AllocateNodePayload(arena, size, alignment)} :
        /\ arena' = r.arena
        /\ nodeAllocs' = IF r.err = Nil
                         THEN Append(nodeAllocs, [off |-> r.off, len |-> r.len, size |-> size,
                                                  alignment |-> alignment])
                         ELSE nodeAllocs
        /\ panicked' = (r.err = "SliceBoundsPanic")
        /\ lastCall' = [op |-> "AllocateNodePayload", size |-> size,
                        alignment |-> alignment, err |-> r.err, off |-> r.off]
  /\ ncalls' = ncalls + 1
  /\ UNCHANGED <<graph, arenaArgs, scratchAllocs>>
  /\ UNCHANGED engineState
  /\ UNCHANGED apiVars
  /\ UNCHANGED fileVars
  /\ UNCHANGED workerVars
  /\ UNCHANGED historyVars
  /\ UNCHANGED libVars

AllocateScratchCall(size, alignment) ==
  /\ phase = "arena" /\ ArenaLive
  /\ \E r \in {AllocateScratch(arena, size, alignment)} :
        /\ arena' = r.arena
        /\ scratchAllocs' = IF r.err = Nil
                            THEN Append(scratchAllocs, [off |-> r.off, len |-> r.len, size |-> size,
                                                        alignment |-> alignment])
                            ELSE scratchAllocs
        /\ panicked' = (r.err = "SliceBoundsPanic")
        /\ lastCall' = [op |-> "AllocateScratch", size |-> size,
                        alignment |-> alignment, err |-> r.err, off |-> r.off]
  /\ ncalls' = ncalls + 1
  /\ UNCHANGED <<graph, arenaArgs, nodeAllocs>>
  /\ UNCHANGED engineState
  /\ UNCHANGED apiVars
  /\ UNCHANGED fileVars
  /\ UNCHANGED workerVars
  /\ UNCHANGED historyVars
  /\ UNCHANGED libVars

\* ResetScratch: the scratch ranges handed out so far are given up
ResetScratchCall ==
  /\ phase = "arena" /\ ArenaLive
  /\ arena' = ResetScratch(arena)
  /\ scratchAllocs' = <<>>
  /\ lastCall' = [NoCall EXCEPT !.op = "ResetScratch"]
  /\ ncalls' = ncalls + 1
  /\ UNCHANGED <<graph, arenaArgs, nodeAllocs, panicked>>
  /\ UNCHANGED engineState
  /\ UNCHANGED apiVars
  /\ UNCHANGED fileVars
  /\ UNCHANGED workerVars
  /\ UNCHANGED historyVars
  /\ UNCHANGED libVars

\* the indexes GetSublateAtIndex is called with: below 0, the slots of the
\* graphs, one past them, and the first index whose offset no longer fits
\* the word, with either sign
SlotIndexes ==
  {-1, 0, 3, 4, WordModulus \div AlignedSublateStructSize,
   -(WordModulus \div AlignedSublateStructSize)}

\* GetSublateAtIndex(index)
GetSublateAtIndexCall(index) ==
  /\ phase = "arena" /\ ArenaLive
  /\ \E err \in {GetSublateAtIndex(arena, index)} :
        lastCall' = [op |-> "GetSublateAtIndex", size |-> index, alignment |-> 0,
                     err |-> err,
                     off |-> IF err = Nil THEN SlotOffset(arena, index) ELSE 0]
  /\ ncalls' = ncalls + 1
  /\ UNCHANGED <<graph, arena, arenaArgs, nodeAllocs, scratchAllocs, panicked>>
  /\ UNCHANGED engineState
  /\ UNCHANGED apiVars
  /\ UNCHANGED fileVars
  /\ UNCHANGED workerVars
  /\ UNCHANGED historyVars
  /\ UNCHANGED libVars

ArenaNext ==
  \/ NewArenaCall
  \/ \E size \in NodeRequestSizes : \E alignment \in NodeRequestAlignments :
        AllocateNodePayloadCall(size, alignment)
  \/ \E size \in ScratchRequestSizes : \E alignment \in ScratchRequestAlignments :
        AllocateScratchCall(size, alignment)
  \/ ResetScratchCall
  \/ \E index \in SlotIndexes : GetSublateAtIndexCall(index)

ArenaSpec == ArenaInit /\ [][ArenaNext]_vars

(***************************************************************************)
(* A work-stealing scheduler on its own: goroutines submit items to the    *)
(* workers' queues while every worker calls GetWork, whose three attempts  *)
(* (own queue, global queue, the other workers' queues in turn) are        *)
(* separate channel operations.  The scheduler starts empty or with the    *)
(* first worker's queue filled by LocalQueueCap earlier submissions.       *)
(***************************************************************************)
Backlogs == {0, LocalQueueCap}

StealInit ==
  /\ graph = EmptyGraph
  /\ opts = LoadOptions(1)
  /\ NothingCalled
  /\ \E workers \in Workers : \E backlog \in Backlogs :
       \E ws \in {NewWorkStealingScheduler(workers)} :
          /\ localQueues = [ws.localQueues EXCEPT ![1] = FirstItems(backlog)]
          /\ globalQueue = ws.globalQueue
          /\ getWork = [w \in 1..workers |-> NoGetWork]
          /\ submitted = 1..backlog
  /\ stopped = FALSE
  /\ returned = [item \in Items |-> 0]
  /\ nilled = {}
  /\ drained = {}
  /\ stolen = FALSE
  /\ AllocIdle
  /\ GraphIdle

\* everything of the engine and its files
notLib == <<graph, opts, phase, buildErr, arena, sublates, sched, pass, epc, seqIdx,
            scheduled, hpc, lastErr, panicked, callVars, apiVars, fileVars,
            workerVars, historyVars>>

notSteal == <<notLib, allocVars, graphVars>>

\* a goroutine calls SubmitWork(workerID, sublate) with a new item
SubmitWorkCall(workerID) ==
  /\ workerID \in DOMAIN localQueues
  /\ ~stopped /\ NewSubmissions(submitted) < MaxSubmissions
  /\ ~SubmitWorkBlocks(localQueues, globalQueue, workerID)
  /\ \E sublate \in {LocalQueueCap + NewSubmissions(submitted) + 1} :
       \E r \in {SubmitWork(localQueues, globalQueue, workerID, sublate)} :
          /\ localQueues' = r.localQueues
          /\ globalQueue' = r.globalQueue
          /\ submitted' = submitted \cup {sublate}
  /\ UNCHANGED <<getWork, stopped, returned, nilled, drained, stolen>>
  /\ UNCHANGED notSteal

\* the last SubmitWork call has returned
StopSubmitting ==
  /\ localQueues # <<>> /\ ~stopped
  /\ stopped' = TRUE
  /\ UNCHANGED <<localQueues, globalQueue, getWork, submitted, returned, nilled, drained,
                 stolen>>
  /\ UNCHANGED notSteal

\* GetWork returns nil to workerID
GetWorkReturnsNil(workerID, afterStop) ==
  /\ getWork' = [getWork EXCEPT ![workerID] = NoGetWork]
  /\ nilled' = IF stopped THEN nilled \cup {workerID} ELSE nilled
  /\ drained' = IF afterStop THEN drained \cup {workerID} ELSE drained

\* GetWork goes on to the next victim after index i, or returns nil when
\* there is none
GetWorkTryNext(workerID, i, afterStop) ==
  IF NextVictim(i, workerID) > Len(localQueues)
  THEN GetWorkReturnsNil(workerID, afterStop)
  ELSE /\ getWork' = [getWork EXCEPT ![workerID] =
                        [pc |-> "steal", i |-> NextVictim(i, workerID),
                         afterStop |-> afterStop]]
       /\ UNCHANGED <<nilled, drained>>

\* GetWork(workerID) is called: the select on the worker's own queue
GetWorkLocal(workerID) ==
  /\ workerID \in DOMAIN getWork /\ getWork[workerID].pc = "idle"
  /\ IF localQueues[workerID] # <<>>
     THEN \E r \in {Receive(localQueues[workerID])} :
            /\ localQueues' = [localQueues EXCEPT ![workerID] = r.rest]
            /\ returned' = [returned EXCEPT ![r.work] = @ + 1]
            /\ UNCHANGED <<getWork, nilled, drained>>
     ELSE /\ getWork' = [getWork EXCEPT ![workerID] =
                           [pc |-> "global", i |-> 0, afterStop |-> stopped]]
          /\ UNCHANGED <<localQueues, returned, nilled, drained>>
  /\ UNCHANGED <<globalQueue, submitted, stopped, stolen>>
  /\ UNCHANGED notSteal

\* the select on the global queue
GetWorkGlobal(workerID) ==
  /\ workerID \in DOMAIN getWork /\ getWork[workerID].pc = "global"
  /\ IF globalQueue # <<>>
     THEN \E r \in {Receive(globalQueue)} :
            /\ globalQueue' = r.rest
            /\ returned' = [returned EXCEPT ![r.work] = @ + 1]
            /\ getWork' = [getWork EXCEPT ![workerID] = NoGetWork]
            /\ UNCHANGED <<nilled, drained>>
     ELSE /\ GetWorkTryNext(workerID, 0, getWork[workerID].afterStop)
          /\ UNCHANGED <<globalQueue, returned>>
  /\ UNCHANGED <<localQueues, submitted, stopped, stolen>>
  /\ UNCHANGED notSteal

\* one round of the steal loop: the select on the queue of worker i
GetWorkSteal(workerID) ==
  /\ workerID \in DOMAIN getWork /\ getWork[workerID].pc = "steal"
  /\ \E i \in {getWork[workerID].i} :
       IF localQueues[i] # <<>>
       THEN \E r \in {Receive(localQueues[i])} :
              /\ localQueues' = [localQueues EXCEPT ![i] = r.rest]
              /\ returned' = [returned EXCEPT ![r.work] = @ + 1]
              /\ stolen' = TRUE
              /\ getWork' = [getWork EXCEPT ![workerID] = NoGetWork]
              /\ UNCHANGED <<nilled, drained>>
       ELSE /\ GetWorkTryNext(workerID, i, getWork[workerID].afterStop)
            /\ UNCHANGED <<localQueues, returned, stolen>>
  /\ UNCHANGED <<globalQueue, submitted, stopped>>
  /\ UNCHANGED notSteal

StealNext ==
  \/ \E workerID \in Workers : SubmitWorkCall(workerID)
  \/ StopSubmitting
  \/ \E workerID \in Workers : GetWorkLocal(workerID)
  \/ \E workerID \in Workers : GetWorkGlobal(workerID)
  \/ \E workerID \in Workers : GetWorkSteal(workerID)

StealSpec == StealInit /\ [][StealNext]_vars

(***************************************************************************)
(* An ArenaAllocator on its own: goroutines call Allocate and Reset, each  *)
(* call running under the allocator's mutex.                               *)
(***************************************************************************)
AllocatorSizes == {40, 64}
AllocateSizes == {0, 5, 24, MaxInt}
AllocateAligns == {1, 8, 16}

AllocInit ==
  /\ graph = EmptyGraph
  /\ opts = LoadOptions(1)
  /\ NothingCalled
  /\ StealIdle
  /\ GraphIdle
  /\ allocator \in {NewArenaAllocator(size) : size \in AllocatorSizes}
  /\ allocated = {}
  /\ lastAllocate = NoAllocate

\* a.Allocate(size, align); a panic leaves the allocator as it was (the
\* deferred Unlock runs)
AllocateCall(size, align) ==
  /\ allocator.buf > 0 /\ lastAllocate.result # "panic"
  /\ \E r \in {Allocate(allocator, size, align)} :
        /\ allocator' = r.allocator
        /\ allocated' = IF r.result = "slice" /\ r.len # 0
                        THEN allocated \cup {[start |-> r.start, len |-> r.len]}
                        ELSE allocated
        /\ lastAllocate' = [result |-> r.result, size |-> size, align |-> align,
                            before |-> allocator.offset, start |-> r.start,
                            len |-> r.len]
  /\ UNCHANGED <<notLib, stealVars, graphVars>>

\* a.Reset()
ResetCall ==
  /\ allocator.buf > 0 /\ lastAllocate.result # "panic"
  /\ allocator' = Reset(allocator)
  /\ allocated' = {}
  /\ lastAllocate' = NoAllocate
  /\ UNCHANGED <<notLib, stealVars, graphVars>>

AllocNext ==
  \/ \E size \in AllocateSizes : \E align \in AllocateAligns : AllocateCall(size, align)
  \/ ResetCall

AllocSpec == AllocInit /\ [][AllocNext]_vars

(***************************************************************************)
(* model.Graph.Optimize, called on the graphs Validate is called on and on *)
(* the graphs the engine is given: chains, a diamond, a cycle, a node that *)
(* names itself, ids that repeat, entries that name no node.               *)
(***************************************************************************)
\* the dependency edges in the order topologicalSort meets them: from each
\* non-sentinel topology entry to the node that lists it
RECURSIVE EdgesFrom(_, _)
EdgesFrom(g, i) ==
  IF i > Len(g.Nodes) THEN <<>>
  ELSE [j \in 1..Len(SelectSeq(g.Nodes[i].Topo, LAMBDA dep : dep # Sentinel)) |->
          [dep |-> SelectSeq(g.Nodes[i].Topo, LAMBDA dep : dep # Sentinel)[j],
           id |-> g.Nodes[i].ID]]
       \o EdgesFrom(g, i + 1)

\* adj[dep]: the ids of the nodes that list dep
Adjacent(edges, dep) ==
  LET of == SelectSeq(edges, LAMBDA e : e.dep = dep)
  IN [k \in DOMAIN of |-> of[k].id]

\* inDegree: per node id, the number of non-sentinel entries of its nodes
InDegree(g, edges) ==
  [id \in NodeIds(g) |-> Cardinality({k \in DOMAIN edges : edges[k].id = id})]

\* the loop over adj[current]: inDegree and the queue after it
RECURSIVE VisitNeighbors(_, _, _)
VisitNeighbors(neighbors, inDegree, queue) ==
  IF neighbors = <<>> THEN [inDegree |-> inDegree, queue |-> queue]
  ELSE With([inDegree EXCEPT ![Head(neighbors)] = @ - 1],
            LAMBDA d : VisitNeighbors(Tail(neighbors), d,
                                      IF d[Head(neighbors)] = 0
                                      THEN Append(queue, Head(neighbors)) ELSE queue))

\* Kahn's algorithm: executionOrder
RECURSIVE Kahn(_, _, _, _)
Kahn(edges, inDegree, queue, executionOrder) ==
  IF queue = <<>> THEN executionOrder
  ELSE With(VisitNeighbors(Adjacent(edges, Head(queue)), inDegree, Tail(queue)),
            LAMBDA r : Kahn(edges, r.inDegree, r.queue, Append(executionOrder, Head(queue))))

\* nodeMap[id]: the last node of the list that carries id
NodeMapAt(g, id) ==
  g.Nodes[CHOOSE i \in DOMAIN g.Nodes :
            /\ g.Nodes[i].ID = id
            /\ \A j \in DOMAIN g.Nodes : g.Nodes[j].ID = id => j <= i]

\* topologicalSort: the reordered node list, with the ids of in-degree 0
\* met in the given order by the range over the inDegree map
topologicalSort(g, zeroOrder) ==
  With(EdgesFrom(g, 1),
       LAMBDA edges :
         With(Kahn(edges, InDegree(g, edges), zeroOrder, <<>>),
              LAMBDA executionOrder :
                [k \in DOMAIN executionOrder |-> NodeMapAt(g, executionOrder[k])]))

\* the ids whose in-degree is 0 before the sort
ZeroInDegree(g) ==
  {id \in NodeIds(g) : InDegree(g, EdgesFrom(g, 1))[id] = 0}

\* Optimize: topologicalSort, then compactPayload, which does nothing
Optimize(g, zeroOrder) == [g EXCEPT !.Nodes = topologicalSort(g, zeroOrder)]

OptimizeGraphs == ValidateGraphs \cup Range(Graphs)

OptimizeInit ==
  /\ graph \in OptimizeGraphs
  /\ opts = LoadOptions(1)
  /\ NothingCalled
  /\ LibIdle

\* g.Optimize()
OptimizeCall ==
  /\ ~optimized.called
  /\ \E zeroOrder \in Orders(ZeroInDegree(graph)) :
       optimized' = [called |-> TRUE, Nodes |-> Optimize(graph, zeroOrder).Nodes]
  /\ UNCHANGED <<notLib, stealVars, allocVars, serialized, deserialized>>

OptimizeNext == OptimizeCall

OptimizeSpec == OptimizeInit /\ [][OptimizeNext]_vars

(***************************************************************************)
(* model.Graph.Serialize and model.Deserialize: graphs of up to            *)
(* MaxGraphNodes nodes with zero to three topology entries each, over an   *)
(* empty or a 16-byte payload, are serialized and the bytes deserialized.  *)
(***************************************************************************)
\* "SULB"
SerializeMagic == 1398099010
SerializeVersion == 1
\* the topology entries a serialized node record has room for
SerializedTopoLen == 2
\* the bytes of a node record Deserialize reads
SerializedNodeSize == 16

\* Serialize: the header
serializeHeader(g) ==
  PutUint32(SerializeMagic) \o PutUint16(SerializeVersion)
    \o PutUint16(Len(g.Nodes) % 65536) \o PutUint32(Len(g.Payload))

\* Serialize: one node, every topology entry written, 0xFFFF entries added
\* while there are fewer than two
serializeNode(node) ==
  PutUint16(node.ID) \o PutUint16(node.In) \o PutUint16(node.Out) \o <<node.Kernel>>
    \o <<Len(node.Topo) % 256>> \o PutUint32(node.Flags)
    \o Concat([j \in DOMAIN node.Topo |-> PutUint16(node.Topo[j])])
    \o Concat([j \in 1..(SerializedTopoLen - Len(node.Topo)) |-> PutUint16(Sentinel)])

\* Serialize
Serialize(g) ==
  With(serializeHeader(g) \o Concat([i \in DOMAIN g.Nodes |-> serializeNode(g.Nodes[i])]),
       LAMBDA buf : buf \o Zeros(Align32(Len(buf)) - Len(buf)) \o g.Payload)

\* Deserialize: the node read at offset pos
deserializeNode(data, pos) ==
  [ID |-> Uint16(data, pos), In |-> Uint16(data, pos + 2), Out |-> Uint16(data, pos + 4),
   Kernel |-> data[pos + 7], Flags |-> Uint32(data, pos + 8),
   Topo |-> SelectSeq([j \in 1..Min(data[pos + 8], SerializedTopoLen) |->
                         Uint16(data, pos + 12 + 2 * (j - 1))],
                      LAMBDA idx : idx # Sentinel)]

\* Deserialize: the loop over the nodes from node i on, the reader at pos
RECURSIVE deserializeNodes(_, _, _, _, _)
deserializeNodes(data, pos, i, nodeCount, nodes) ==
  IF i > nodeCount THEN [err |-> Nil, nodes |-> nodes, pos |-> pos]
  ELSE IF pos + SerializedNodeSize > Len(data)
  THEN [err |-> "EOF", nodes |-> nodes, pos |-> pos]
  ELSE deserializeNodes(data, pos + SerializedNodeSize, i + 1, nodeCount,
                        Append(nodes, deserializeNode(data, pos)))

\* Deserialize: buf.Read(payload) at offset pos, which returns io.EOF when
\* the reader is at its end and otherwise the bytes there are
deserializePayload(data, pos, payloadSize) ==
  IF pos >= Len(data) THEN [err |-> "EOF", payload |-> <<>>]
  ELSE [err |-> Nil,
        payload |-> [k \in 1..payloadSize |->
                       IF pos + k <= Len(data) THEN data[pos + k] ELSE 0]]

DeserializeFailed(err) == [err |-> err, graph |-> EmptyGraph]

\* Deserialize
Deserialize(data) ==
  IF Len(data) < 4 THEN DeserializeFailed("EOF")
  ELSE IF Uint32(data, 0) # SerializeMagic THEN DeserializeFailed("InvalidMagic")
  ELSE IF Len(data) < 6 THEN DeserializeFailed("EOF")
  ELSE IF Uint16(data, 4) # SerializeVersion THEN DeserializeFailed("UnsupportedVersion")
  ELSE IF Len(data) < 12 THEN DeserializeFailed("EOF")
  ELSE With(deserializeNodes(data, 12, 1, Uint16(data, 6), <<>>),
         LAMBDA n :
           IF n.err # Nil THEN DeserializeFailed(n.err)
           ELSE With(deserializePayload(data, Align32(n.pos), Uint32(data, 8)),
                  LAMBDA p :
                    IF p.err # Nil THEN DeserializeFailed(p.err)
                    ELSE [err |-> Nil, graph |-> [Nodes |-> n.nodes, Payload |-> p.payload]]))

SerializeTopos == {<<>>, <<1>>, <<1, 2>>, <<1, 2, 3>>}
SerializeFlags == {0, 5}
SerializeNodes ==
  {[ID |-> 258, In |-> 0, Out |-> 8, Kernel |-> kernel, Flags |-> flags, Topo |-> topo] :
     kernel \in {OpNoop, OpReLU}, flags \in SerializeFlags, topo \in SerializeTopos}
SerializeGraphs ==
  {[Nodes |-> nodes, Payload |-> payload] :
     nodes \in UNION {[1..n -> SerializeNodes] : n \in 0..MaxGraphNodes},
     payload \in {<<>>, Payload16}}

SerializeInit ==
  /\ graph \in SerializeGraphs
  /\ opts = LoadOptions(1)
  /\ NothingCalled
  /\ LibIdle

\* g.Serialize()
SerializeCall ==
  /\ ~serialized.called
  /\ serialized' = [called |-> TRUE, bytes |-> Serialize(graph)]
  /\ UNCHANGED <<notLib, stealVars, allocVars, optimized, deserialized>>

\* Deserialize(data) on the bytes Serialize returned
DeserializeCall ==
  /\ serialized.called /\ ~deserialized.called
  /\ \E r \in {Deserialize(serialized.bytes)} :
        deserialized' = [called |-> TRUE, err |-> r.err, graph |-> r.graph]
  /\ UNCHANGED <<notLib, stealVars, allocVars, optimized, serialized>>

SerializeNext ==
  \/ SerializeCall
  \/ DeserializeCall

SerializeSpec == SerializeInit /\ [][SerializeNext]_vars

(***************************************************************************)
(* The properties.                                                         *)
(***************************************************************************)
\* a graph the loader is meant to accept: unique ids, no cycle, every
\* topology entry the id of a node, offsets inside the payload
WellFormed(g) ==
  UniqueIds(g) /\ ~Cyclic(g) /\ NoDangling(g) /\ ~HasSentinel(g) /\ OffsetsInBounds(g)

\* the number of nodes of g that carry id
NodesWithId(g, id) == Cardinality({i \in DOMAIN g.Nodes : g.Nodes[i].ID = id})

\* Execute has returned nil from a pass
PassReturned == pass >= 1 /\ epc = "idle" /\ lastErr = Nil /\ ~panicked

\* C1: in a streaming pass, with any number of workers, the kernel of a node
\* starts only after the kernel of each node listed in its topology has
\* returned
C1_StreamingDependencyOrder ==
  (opts.Streaming /\ WellFormed(graph)) =>
    \A id \in NodeIds(graph) :
      kstarted[id] > 0 => \A d \in DepsOf(graph, id) : kreturned[d] > 0

C3_RepeatedExecuteFullPass ==
  (opts.Streaming /\ WellFormed(graph)) =>
    /\ ~panicked
    /\ (pass >= 1 /\ epc = "idle") =>
         /\ lastErr = Nil
         /\ \A id \in NodeIds(graph) : kstarted[id] = 1 /\ kreturned[id] = 1

\* C4: after one streaming pass the prev and prop buffers of every node are
\* byte-identical to those after one sequential pass from the same initial
\* state
C4_ParallelEqualsSequential ==
  (opts.Streaming /\ WellFormed(graph) /\ pass = 1 /\ PassReturned) =>
    \A seq \in {runSequentialExecution(prepareExecution(graph, opts).sublates, 1)} :
      /\ seq.err = Nil
      /\ \A i \in DOMAIN sublates :
           /\ sublates[i].PayloadPrev = seq.sublates[i].PayloadPrev
           /\ sublates[i].PayloadProp = seq.sublates[i].PayloadProp

\* C5: in both modes a node's buffers are exchanged exactly once per kernel
\* dispatch, after the kernel returns and before the kernel of a node that
\* depends on it starts
C5_SwapOncePerDispatch ==
  WellFormed(graph) =>
    /\ \A i \in DOMAIN graph.Nodes : swaps[i] <= kreturned[graph.Nodes[i].ID]
    /\ PassReturned =>
         \A i \in DOMAIN graph.Nodes : swaps[i] = kreturned[graph.Nodes[i].ID]
    /\ \A i, j \in DOMAIN graph.Nodes :
         (/\ graph.Nodes[i].ID \in DepsOf(graph, graph.Nodes[j].ID)
          /\ kreturned[graph.Nodes[i].ID] > 0
          /\ kstarted[graph.Nodes[j].ID] > 0
          /\ ~(epc = "seqSwap" /\ seqIdx = i))
         => swaps[i] = kreturned[graph.Nodes[i].ID]

\* C6: with streaming = false a pass invokes every node after all nodes
\* listed in its topology, whatever the order of the graph's node list
C6_SequentialTopologicalOrder ==
  (~opts.Streaming /\ WellFormed(graph)) =>
    \A id \in NodeIds(graph) :
      kstarted[id] > 0 => \A d \in DepsOf(graph, id) : kreturned[d] > 0

\* C7: building an engine or a scheduler for a graph with a dependency cycle
\* fails with GraphCyclic, and no pass starts on such a graph
C7_CyclicGraphRejected ==
  (Cyclic(graph) /\ phase # "new") =>
    phase = "failed" /\ buildErr = "GraphCyclic" /\ ~sched.built /\ pass = 0

\* C8: building an engine from a graph with a duplicate node id, a dangling
\* topology entry or an offset beyond the payload returns an error, and no
\* pass runs
C8_InvalidGraphRejected ==
  (/\ ~UniqueIds(graph) \/ ~NoDangling(graph) \/ ~OffsetsInBounds(graph)
   /\ phase # "new")
  => phase = "failed" /\ buildErr # Nil /\ pass = 0

\* C9: a pass over a graph with a node whose opcode has no registered kernel
\* returns no error, and every other node of the pass is executed, in both
\* modes
C9_UnregisteredOpcodeIsNoop ==
  (/\ WellFormed(graph)
   /\ \E i \in DOMAIN graph.Nodes : GetKernel(graph.Nodes[i].Kernel) = NilKernel
   /\ pass = 1 /\ epc = "idle" /\ ~panicked)
  => /\ lastErr = Nil
     /\ \A i \in DOMAIN graph.Nodes :
          GetKernel(graph.Nodes[i].Kernel) # NilKernel => kreturned[graph.Nodes[i].ID] = 1

\* C10: the scheduler's dependency list of a node is its topology without the
\* 0xFFFF entries, and a node whose topology holds only 0xFFFF is in the
\* level-0 group, which scheduleInitialReady releases
C10_SentinelIsNoDependency ==
  (phase = "built" /\ sched.built /\ UniqueIds(graph)) =>
    \A i \in DOMAIN graph.Nodes :
      /\ sched.deps[graph.Nodes[i].ID] =
           SelectSeq(graph.Nodes[i].Topo, LAMBDA x : x # Sentinel)
      /\ (Range(graph.Nodes[i].Topo) \subseteq {Sentinel} /\ pass = 0) =>
           (0 \in DOMAIN sched.waiting /\ graph.Nodes[i].ID \in GroupIds(sched.waiting[0]))

\* the level scheduler construction gave a node: the key of the waiting group
\* that holds it
LevelOf(id) == CHOOSE l \in DOMAIN sched.waiting : id \in GroupIds(sched.waiting[l])

\* the scheduler is as NewStreamScheduler built it: no pass has begun
JustConstructed == phase = "built" /\ sched.built /\ pass = 0

\* C11: for an acyclic graph whose topology entries all name nodes, scheduler
\* construction gives a node level 0 when it has no dependencies and
\* otherwise one plus the maximum level of its dependencies, so its level is
\* strictly greater than the level of each dependency
C11_LevelIsDependencyDepth ==
  (JustConstructed /\ UniqueIds(graph) /\ ~Cyclic(graph) /\ NoDangling(graph)
   /\ ~HasSentinel(graph)) =>
    \A id \in NodeIds(graph) :
      /\ \E l \in DOMAIN sched.waiting : id \in GroupIds(sched.waiting[l])
      /\ DepsOf(graph, id) = {} => LevelOf(id) = 0
      /\ DepsOf(graph, id) # {} =>
           /\ \A d \in DepsOf(graph, id) : LevelOf(id) > LevelOf(d)
           /\ \E d \in DepsOf(graph, id) : LevelOf(id) = LevelOf(d) + 1

\* a scheduler built for the four-level graph: node 3 is at level 3, one above
\* its deeper dependency
C11_FourLevelsBuilt ==
  /\ JustConstructed /\ ~Cyclic(graph) /\ NoDangling(graph) /\ UniqueIds(graph)
  /\ DOMAIN sched.waiting = 0..3
  /\ DepsOf(graph, 3) = {0, 2} /\ LevelOf(3) = 3 /\ LevelOf(0) = 0

\* the places (level, position) at which the waiting map holds a node
PlacesOf(n) ==
  {<<l, k>> \in (DOMAIN sched.waiting) \X (1..Len(graph.Nodes)) :
     k \in DOMAIN sched.waiting[l] /\ sched.waiting[l][k] = n}

\* C12: after scheduler construction the task groups partition the nodes:
\* every node is in exactly one group of the waiting map, every group member
\* is a node of the graph, and no node of a group depends on another node of
\* the same group
C12_TaskGroupsPartitionNodes ==
  (JustConstructed /\ UniqueIds(graph)) =>
    /\ \A i \in DOMAIN graph.Nodes : Cardinality(PlacesOf(graph.Nodes[i])) = 1
    /\ \A l \in DOMAIN sched.waiting :
         /\ sched.waiting[l] # <<>>
         /\ \A k \in DOMAIN sched.waiting[l] :
              /\ \E i \in DOMAIN graph.Nodes : graph.Nodes[i] = sched.waiting[l][k]
              /\ \A m \in DOMAIN sched.waiting[l] :
                   m # k => sched.waiting[l][m].ID \notin
                              DepsOf(graph, sched.waiting[l][k].ID)

\* a scheduler built for the diamond: the groups are {0}, {1, 2}, {3}
C12_DiamondGroups ==
  /\ JustConstructed /\ UniqueIds(graph)
  /\ DepsOf(graph, 3) = {1, 2}
  /\ DOMAIN sched.waiting = 0..2
  /\ GroupIds(sched.waiting[0]) = {0}
  /\ GroupIds(sched.waiting[1]) = {1, 2}
  /\ GroupIds(sched.waiting[2]) = {3}

\* C13: node state persists across passes: the arena and the node buffers are
\* created once, and a later pass starts with the buffer contents the pass
\* before it ended with
C13_BuffersPersistAcrossPasses ==
  [][(pass >= 1 /\ pass' = pass + 1) => (arena' = arena /\ sublates' = sublates)]_vars

\* C14: the model with the single node {id 0, no-op, in_off 0, out_off 16}
\* and a payload of 16 bytes 0xAA loads, and after one Execute the prev buffer
\* of node 0 holds the 16 bytes 0xAA
C14_SingleNoopNodeKeepsPayload ==
  (graph = [Nodes |-> <<Node(0, 0, 16, OpNoop, <<>>)>>, Payload |-> Payload16]) =>
    /\ phase # "new" => (phase = "built" /\ buildErr = Nil)
    /\ (pass = 1 /\ epc = "idle") =>
         /\ lastErr = Nil
         /\ SubSeq(sublates[1].PayloadPrev, 1, 16) = Payload16

\* C15: when the engine computes the arena size and the region sizes itself
\* (ArenaSize 0), the NodePayloads region has room for both buffers of every
\* node: engine construction does not fail for lack of node-payload space
C15_AutoSizedArenaHoldsNodeBuffers ==
  [][(phase = "new" /\ opts.ArenaSize = 0 /\ WellFormed(graph) /\ phase' # "new")
     => (phase' = "built" /\ buildErr' \notin {"NodePayloadsExhausted", "NoRegion"})]_vars

\* C16: on one arena, every allocation AllocateNodePayload has granted is a
\* range of exactly the requested length, starts at a multiple of the
\* requested alignment (of the default alignment for a request of 0), lies
\* inside the NodePayloads region and shares no byte with a range granted
\* before it
C16_NodeAllocationsDisjointInRegion ==
  \A i \in DOMAIN nodeAllocs :
    \A r \in {nodeAllocs[i]} :
      /\ r.len = r.size
      /\ r.off % (IF r.alignment = 0 THEN DefaultAlignment ELSE r.alignment) = 0
      /\ r.off >= arena.nodePayloads.Offset
      /\ r.off + r.len <= arena.nodePayloads.Offset + arena.nodePayloads.Size
      /\ \A j \in 1..(i - 1) :
           \/ nodeAllocs[j].off + nodeAllocs[j].len <= r.off
           \/ r.off + r.len <= nodeAllocs[j].off

\* three allocations granted on one arena, the second and the third moved up
\* to their alignment
C16_ThreeAlignedAllocations ==
  /\ Len(nodeAllocs) = 3
  /\ nodeAllocs[2].alignment = 16
  /\ nodeAllocs[2].off > nodeAllocs[1].off + nodeAllocs[1].len
  /\ nodeAllocs[3].alignment = CacheLineSize
  /\ nodeAllocs[3].off > nodeAllocs[2].off + nodeAllocs[2].len

\* C17: a node-payload request whose aligned start plus size lies beyond the
\* end of the NodePayloads region returns the exhaustion error and leaves the
\* arena, its cursor included, and the ranges granted so far as they were
C17_ExhaustedAllocationLeavesCursor ==
  [][(/\ ncalls' = ncalls + 1
      /\ lastCall'.op = "AllocateNodePayload"
      /\ arena.nodePayloads.Size > 0
      /\ AlignUp(arena.currentNodePayloadOffset,
                 IF lastCall'.alignment = 0 THEN DefaultAlignment ELSE lastCall'.alignment)
           + lastCall'.size > arena.nodePayloads.Offset + arena.nodePayloads.Size)
     => (/\ lastCall'.err = "NodePayloadsExhausted"
         /\ arena' = arena
         /\ nodeAllocs' = nodeAllocs)]_vars

\* the six regions of the arena in layout order
RegionsInOrder ==
  <<arena.modelPayload, arena.sublateMeta, arena.nodePayloads, arena.scratch,
    arena.streamingInput, arena.freeTail>>

\* NewArena has returned an arena
ArenaConstructed == phase = "arena" /\ lastCall.op # "none" /\ arena.err = Nil

\* C18: once NewArena has returned an arena, the offsets of ModelPayload,
\* NodeMetadata, NodePayloads, Scratch, StreamingInput and FreeTail increase
\* strictly in that order, each is a multiple of 32, no two regions share a
\* byte, and every region ends at or before the end of the buffer
C18_RegionOffsetsStrictlyIncreasing ==
  ArenaConstructed =>
    \A rs \in {RegionsInOrder} :
      /\ \A i \in 1..5 : rs[i].Offset < rs[i + 1].Offset
      /\ \A i \in 1..6 : rs[i].Offset % 32 = 0
      /\ \A i \in 1..6 : \A j \in (i + 1)..6 :
            \/ rs[i].Size = 0 \/ rs[j].Size = 0
            \/ rs[i].Offset + rs[i].Size <= rs[j].Offset
            \/ rs[j].Offset + rs[j].Size <= rs[i].Offset
      /\ \A i \in 1..6 : rs[i].Offset + rs[i].Size <= arena.totalSize

\* NewArena has been called, whatever it returned
NewArenaReturned == phase = "arena" /\ lastCall.op # "none"

\* C19: NewArena called with totalSize 0 returns an arena of exactly the
\* minimum required size; called with totalSize > 0 it returns an arena of
\* totalSize rounded up to a multiple of 32, or, when that rounded size is
\* below the minimum required size, the too-small error and no arena
C19_EffectiveSizeIsRoundedTo32 ==
  NewArenaReturned =>
    \A min \in {calculateMinRequiredSize(graph, arenaArgs.nodePayloadsSize,
                                         arenaArgs.streamingInputSize,
                                         arenaArgs.kernelScratchSize)} :
      /\ (arenaArgs.totalSize = 0 /\ arena.err = Nil) => arena.totalSize = min
      /\ arenaArgs.totalSize > 0 =>
           \A rounded \in {AlignUp(arenaArgs.totalSize, 32)} :
             IF rounded < min
             THEN arena = NoArena("TooSmall")
             ELSE arena.err = Nil /\ arena.totalSize = rounded

\* C20: a ResetScratch call changes nothing of the arena but the scratch
\* cursor, which it puts at the start of the Scratch region: the NodePayloads
\* cursor and the node ranges granted stay as they are, and a scratch request
\* made next is answered as the same request is on the arena NewArena returned
C20_ResetScratchMovesOnlyScratchCursor ==
  [][(ncalls' = ncalls + 1 /\ lastCall'.op = "ResetScratch")
     => (/\ arena' = [arena EXCEPT !.currentScratchOffset = arena.scratch.Offset]
         /\ nodeAllocs' = nodeAllocs
         /\ \A fresh \in {NewArena(arenaArgs.totalSize, graph, arenaArgs.nodePayloadsSize,
                                   arenaArgs.streamingInputSize,
                                   arenaArgs.kernelScratchSize)} :
              \A size \in ScratchRequestSizes : \A alignment \in ScratchRequestAlignments :
                /\ AllocateScratch(arena', size, alignment).err
                     = AllocateScratch(fresh, size, alignment).err
                /\ AllocateScratch(arena', size, alignment).off
                     = AllocateScratch(fresh, size, alignment).off)]_vars

\* ResetScratch has been called on an arena that had granted a node range and
\* whose scratch cursor had moved, and the node cursor still stands behind
\* the granted node range
C20_ResetAfterBothAllocators ==
  /\ lastCall.op = "ResetScratch"
  /\ ncalls = 3
  /\ Len(nodeAllocs) = 1
  /\ arena.scratch.Size > 0
  /\ arena.currentScratchOffset = arena.scratch.Offset
  /\ arena.currentNodePayloadOffset = nodeAllocs[1].off + nodeAllocs[1].len
  /\ arena.currentNodePayloadOffset > arena.nodePayloads.Offset

\* an ExecuteStreaming call returns in this step
StreamingCallReturns == streamCall'.n = streamCall.n + 1

\* C21: on an engine configured for streaming, ExecuteStreaming returns the
\* overflow error exactly when the input is longer than the StreamingInput
\* region (an input of exactly the region's size is accepted), and a call
\* that returns it has run no pass: the sublates with their two buffers, the
\* pass count and the statistics are as before
C21_StreamingOverflowExactlyWhenTooLong ==
  [][(StreamingCallReturns /\ opts.Streaming)
     => (/\ (streamCall'.err = "StreamingOverflow")
              <=> (streamCall'.inputLen > arena.streamingInput.Size)
         /\ streamCall'.err = "StreamingOverflow"
              => (sublates' = sublates /\ passesDone' = passesDone /\ stats' = stats))]_vars

\* after a pass that succeeded, an ExecuteStreaming call with an input one
\* byte longer than the region has returned the overflow error
C21_OverflowAfterAcceptedPass ==
  /\ opts.Streaming
  /\ streamCall.n >= 1
  /\ streamCall.err = "StreamingOverflow"
  /\ arena.streamingInput.Size > 0
  /\ streamCall.inputLen = arena.streamingInput.Size + 1
  /\ passesDone = 1

\* C22: when ExecuteStreaming returns nil, the first k bytes of the output
\* slice, k the smaller of its length and the length of the first sublate's
\* buffer, are the bytes of the buffer the first sublate's kernel was applied
\* to in this pass, which after the swap of the pass is its PayloadPrev
C22_StreamingOutputIsKernelOutput ==
  [][(StreamingCallReturns /\ streamCall'.err = Nil /\ Len(sublates') > 0)
     => \A k \in {Min(Len(streamCall'.output), Len(sublates'[1].PayloadPrev))} :
          SubSeq(streamCall'.output, 1, k) = SubSeq(sublates'[1].PayloadPrev, 1, k)]_vars

\* C23: on an engine NewEngine returned, at every moment before, during and
\* after its passes, the two buffers of every sublate have the same length,
\* a positive multiple of 4, and both start at arena offsets that are
\* multiples of the cache line size
C23_BuffersEqualLengthLaneAligned ==
  phase = "built" =>
    /\ Len(sublates) = Len(graph.Nodes)
    /\ \A i \in DOMAIN sublates :
         \A s \in {sublates[i]} :
           /\ Len(s.PayloadPrev) = Len(s.PayloadProp)
           /\ Len(s.PayloadPrev) > 0
           /\ Len(s.PayloadPrev) % 4 = 0
           /\ s.PrevOff % CacheLineSize = 0
           /\ s.PropOff % CacheLineSize = 0

\* a sequential pass over the four nodes of the diamond has returned, each
\* sublate's buffers swapped
C23_DiamondPassSwapped ==
  /\ phase = "built" /\ epc = "idle" /\ passesDone = 1
  /\ Len(sublates) = 4
  /\ \A i \in DOMAIN sublates :
       swaps[i] = 1 /\ sublates[i].PrevOff > sublates[i].PropOff

\* C24: with EnableStats set, TotalExecutions is 0 before the first pass and
\* equals at every moment the number of passes (Execute or ExecuteStreaming
\* calls) that have returned nil on the engine; with EnableStats unset it
\* stays 0
C24_TotalExecutionsCountsPasses ==
  stats.TotalExecutions = IF opts.EnableStats THEN passesDone ELSE 0

\* statistics enabled, one Execute and one ExecuteStreaming call have
\* returned nil and both are counted
C24_TwoPassesCounted ==
  /\ opts.EnableStats
  /\ pass = 1 /\ streamCall.n = 1 /\ streamCall.err = Nil /\ epc = "idle"
  /\ passesDone = 2
  /\ stats.TotalExecutions = 2

\* the fields a simple-format record stores, taken from a parsed node
StoredFields(node) ==
  [ID |-> node.ID, Kernel |-> node.Kernel, In |-> node.In, Out |-> node.Out,
   Flags |-> node.Flags]

\* Load has returned an engine for the file
LoadAccepted == loaded.called /\ loaded.err = Nil /\ ~panicked

\* C25: for a file the simple writer wrote and Load accepted, the parsed graph
\* has the node count of the header, its i-th node carries the id, opcode,
\* in_off, out_off and flags of the i-th 16-byte record, its payload is the
\* stored payload, and writing it back in the simple format gives the bytes
\* of the file.
C25_LoadRoundTripsSimpleFormat ==
  (file.format = "simple" /\ LoadAccepted)
    => /\ Len(loaded.graph.Nodes) = Uint32(file.bytes, 0)
       /\ \A i \in DOMAIN loaded.graph.Nodes :
            StoredFields(loaded.graph.Nodes[i]) = SimpleRecord(file.bytes, i - 1)
       /\ loaded.graph.Payload
            = SubSeq(file.bytes, 8 + NodeSize * Uint32(file.bytes, 0) + 1,
                     8 + NodeSize * Uint32(file.bytes, 0) + Uint32(file.bytes, 4))
       /\ writeSimpleGraph(loaded.graph) = file.bytes

\* C26: Load of a file that CompileWithOptions wrote in the optimized variant
\* returns an engine, and the parsed graph has the nodes (count, fields and
\* topologies) and the payload of the graph the compiler wrote.
C26_LoadAcceptsOptimizedVariant ==
  (file.format = "optimized" /\ loaded.called)
    => (LoadAccepted /\ loaded.graph = graph)

\* the file is shorter than its header, or than the header, the node records
\* and the payload its header announces
FileTooShort(buf) ==
  \/ Len(buf) < 8
  \/ Uint32(buf, 0) > Len(buf)
  \/ Uint32(buf, 4) > Len(buf)
  \/ Len(buf) < 8 + NodeSize * Uint32(buf, 0) + Uint32(buf, 4)

\* C27: Load of a file that is too short, whatever its two header fields
\* hold, returns one of the two invalid-format errors and no engine, the
\* process lives on, and no Load reads behind the last byte of its file.
C27_LoadRejectsShortFiles ==
  loaded.called
    => /\ loaded.readEnd <= Len(file.bytes)
       /\ FileTooShort(file.bytes)
            => /\ loaded.err \in {"TooSmall", "InconsistentSizes"}
               /\ phase # "built"
               /\ ~panicked

\* C28: the length of every file written in the simple format is a multiple
\* of 32 bytes.
C28_SimpleFileLengthMultipleOf32 ==
  file.format = "simple" => Len(file.bytes) % 32 = 0

\* GetSublateAtIndex has just returned
GetSublateReturned == lastCall'.op = "GetSublateAtIndex" /\ ncalls' = ncalls + 1

\* C29: on an arena built for a graph of N nodes, GetSublateAtIndex returns a
\* slot inside the metadata region for every index from 0 to N - 1 and an
\* error for every other index: N, the larger ones and the negative ones.
C29_SlotExactlyForNodeIndexes ==
  [][GetSublateReturned
       => \A index \in {lastCall'.size} :
            IF 0 <= index /\ index < Len(graph.Nodes)
            THEN /\ lastCall'.err = Nil
                 /\ lastCall'.off = arena.sublateMeta.Offset
                                      + index * AlignedSublateStructSize
                 /\ lastCall'.off + AlignedSublateStructSize
                      <= arena.sublateMeta.Offset + arena.sublateMeta.Size
            ELSE lastCall'.err # Nil]_vars

\* the invariants of the data model: the ids are unique, every topology
\* entry but the sentinel is the id of a node of the graph, and
\* in_off <= out_off <= len(payload) for every node
DataModelInvariants(g) ==
  /\ \A i, j \in DOMAIN g.Nodes : g.Nodes[i].ID = g.Nodes[j].ID => i = j
  /\ \A i \in DOMAIN g.Nodes : \A k \in DOMAIN g.Nodes[i].Topo :
        g.Nodes[i].Topo[k] # Sentinel => g.Nodes[i].Topo[k] \in NodeIds(g)
  /\ \A i \in DOMAIN g.Nodes :
        g.Nodes[i].In <= g.Nodes[i].Out /\ g.Nodes[i].Out <= Len(g.Payload)

\* C30: Validate returns no error for a graph with at least one node that
\* satisfies the invariants of the data model.
C30_ValidateAcceptsDataModelGraphs ==
  (validated.called /\ Len(graph.Nodes) > 0 /\ DataModelInvariants(graph))
    => validated.err = Nil

\* what a sequential pass leaves in PayloadPrev of the sublate of node: the
\* node's kernel applied to a zeroed buffer of the node's aligned size
SequentialPrev(node) ==
  CallKernel(GetKernel(node.Kernel), Zeros(AlignedSize(calculateNodePayloadSize(node))))

DependencyFreeGroups(s) ==
  {s.waiting[l] : l \in {k \in DOMAIN s.waiting :
      /\ Len(s.waiting[k]) # 0
      /\ \A m \in DOMAIN s.waiting[k] : s.deps[s.waiting[k][m].ID] = <<>>}}

\* C33: the initial release of a streaming pass (scheduleInitialReady, before
\* the completion handler exists) puts exactly the groups whose members have
\* no dependencies on the ready queue, and no group with a dependent node,
\* in whatever order the waiting map is traversed
C33_InitialReleaseOnlyLevelZero ==
  [][(epc = "scheduleReady" /\ epc' = "startHandler" /\ WellFormed(graph) /\ pass = 1) =>
       /\ Len(sched'.ready) >= Len(sched.ready)
       /\ {sched'.ready[k] : k \in (Len(sched.ready) + 1)..Len(sched'.ready)}
            = DependencyFreeGroups(sched)]_vars

\* the goroutines that are inside code reading or writing scheduler.waiting
\* and the scheduled map: the controller inside scheduleInitialReady
\* (written 0), the completion handler of pass p inside its loop (written p)
MapAccessors ==
  (IF epc = "scheduleReady" THEN {0} ELSE {})
    \cup {p \in Passes : hpc[p] = "loop"}

\* C34: during a streaming pass the waiting map and the scheduled set are
\* never accessed by two goroutines at once: at most one goroutine is inside
\* the code that touches them, the controller's initial release is over
\* before a handler runs, after that only the one handler changes them, and
\* no worker step changes them
C34_WaitingAndScheduledHaveOneOwner ==
  /\ [](Cardinality(MapAccessors) <= 1)
  /\ [][(epc # "idle" /\ (scheduled' # scheduled \/ sched'.waiting # sched.waiting)) =>
          /\ workerVars' = workerVars
          /\ historyVars' = historyVars
          /\ \/ MapAccessors = {0} /\ epc' = "startHandler"
             \/ \E p \in Passes : MapAccessors = {p} /\ epc' = epc /\ hpc' = hpc]_vars

\* the number of nodes of the graph whose opcode is c
NodesWithOpcode(g, c) == Cardinality({n \in DOMAIN g.Nodes : g.Nodes[n].Kernel = c})

\* C35: with EnableStats set, when k passes have been made and each returned
\* nil, Stats() reports for every opcode k times the number of nodes with
\* that opcode, on a sequential engine and on a streaming engine
C35_KernelExecutionsCountNodes ==
  (/\ opts.EnableStats /\ phase = "built" /\ epc = "idle" /\ ~panicked
   /\ passesDone = pass + streamCall.n) =>
    \A c \in DOMAIN stats.KernelExecutions :
      stats.KernelExecutions[c] = passesDone * NodesWithOpcode(graph, c)

\* the same count on engines that are not configured for streaming
C35_KernelExecutionsSequential ==
  ~opts.Streaming => C35_KernelExecutionsCountNodes

\* the buffers the data model gives node before the first pass: both of the
\* aligned length of its payload segment (of 256 bytes when the segment is
\* empty), prev starting with the segment's bytes, everything else zero
InitialPrev(g, node) ==
  IF node.Out > node.In
  THEN [k \in 1..AlignedSize(node.Out - node.In) |->
          IF k <= node.Out - node.In THEN g.Payload[node.In + k] ELSE 0]
  ELSE Zeros(AlignedSize(DefaultPayloadSize))

InitializedAsSpecified ==
  /\ phase = "built"
  /\ DOMAIN sublates = DOMAIN graph.Nodes
  /\ \A i \in DOMAIN graph.Nodes :
       /\ sublates[i].PayloadPrev = InitialPrev(graph, graph.Nodes[i])
       /\ sublates[i].PayloadProp = Zeros(Len(InitialPrev(graph, graph.Nodes[i])))

\* C36: initialization of a graph with a non-empty payload whose nodes have
\* out_off <= len(payload) gives every node with in_off < out_off two
\* buffers of length AlignedSize(out_off - in_off), prev holding the payload
\* bytes in_off..out_off followed by zeros and prop all zeros, and every
\* node with out_off <= in_off two zero-filled buffers of AlignedSize(256)
C36_InitialBuffersFromPayload ==
  (/\ phase # "new" /\ pass = 0
   /\ WellFormed(graph) /\ Len(graph.Payload) > 0
   /\ \A i \in DOMAIN graph.Nodes : graph.Nodes[i].Out <= Len(graph.Payload))
    => InitializedAsSpecified

\* the same for the engines NewEngine returns
C36_InitialBuffersWhenBuilt ==
  (phase = "built" /\ pass = 0 /\ Len(graph.Payload) > 0
   /\ \A i \in DOMAIN graph.Nodes : graph.Nodes[i].Out <= Len(graph.Payload))
    => InitializedAsSpecified

\* no item is returned by more than one GetWork call, and none that was not
\* submitted
ReturnedAtMostOnce ==
  \A item \in Items : returned[item] <= (IF item \in submitted THEN 1 ELSE 0)

\* C37 as stated: in any interleaving of SubmitWork and GetWork calls no
\* item is returned by more than one GetWork call, and once the submissions
\* have stopped and GetWork has returned nil to every worker, every
\* submitted item has been returned exactly once
C37_EveryItemReturnedOnce ==
  /\ ReturnedAtMostOnce
  /\ (stopped /\ nilled = DOMAIN getWork) =>
       \A item \in submitted : returned[item] = 1

\* C37, amended: no item is returned by more than one GetWork call, and once
\* the submissions have stopped and every worker has been returned nil by a
\* GetWork call that began after the last submission, every submitted item
\* has been returned exactly once
C37_EveryItemReturnedOnceAfterDrain ==
  /\ ReturnedAtMostOnce
  /\ (stopped /\ drained = DOMAIN getWork) =>
       \A item \in submitted : returned[item] = 1

\* two workers have drained a scheduler that started with the first
\* worker's queue full and was given MaxSubmissions items more; an item was
\* stolen from the other worker's queue
C37_DrainedWithStealing ==
  /\ stopped /\ Len(localQueues) = 2 /\ drained = {1, 2}
  /\ submitted = Items
  /\ stolen
  /\ \A item \in submitted : returned[item] = 1

\* the byte offsets of a returned slice
BytesOf(r) == r.start..(r.start + r.len - 1)

\* the slices returned since the last Reset share no byte and lie inside
\* the buffer; the slice just returned has the requested length and starts
\* at a multiple of the requested alignment
AllocatedAsRequested ==
  /\ \A r1 \in allocated : \A r2 \in allocated :
       r1 # r2 => BytesOf(r1) \cap BytesOf(r2) = {}
  /\ \A r \in allocated : 0 <= r.start /\ r.start + r.len <= allocator.buf
  /\ lastAllocate.result = "slice" =>
       /\ 0 <= lastAllocate.start /\ lastAllocate.start + lastAllocate.len <= allocator.buf
       /\ lastAllocate.len = lastAllocate.size
       /\ lastAllocate.start % lastAllocate.align = 0

\* a request fits when its size, placed at the aligned offset, ends inside
\* the buffer
Fits(offset, size, align, buflen) == AlignedOffset(offset, align) + size <= buflen

\* C38: between two Reset calls the non-nil results of Allocate are pairwise
\* disjoint ranges inside the buffer, each of the requested size and at a
\* multiple of the requested alignment; a request that does not fit returns
\* nil and leaves the offset unchanged
C38_AllocateDisjointOrNil ==
  /\ AllocatedAsRequested
  /\ (/\ lastAllocate.result # "none"
      /\ ~Fits(lastAllocate.before, lastAllocate.size, lastAllocate.align, allocator.buf))
       => (lastAllocate.result = "nil" /\ allocator.offset = lastAllocate.before)

\* the same for requests whose aligned offset plus size does not pass MaxInt
C38_AllocateDisjointOrNilWithoutOverflow ==
  /\ AllocatedAsRequested
  /\ (/\ lastAllocate.result # "none"
      /\ ~Fits(lastAllocate.before, lastAllocate.size, lastAllocate.align, allocator.buf)
      /\ AlignedOffset(lastAllocate.before, lastAllocate.align) + lastAllocate.size <= MaxInt)
       => (lastAllocate.result = "nil" /\ allocator.offset = lastAllocate.before)

\* how often each element occurs in a sequence
Occurrences(seq) ==
  [x \in Range(seq) |-> Cardinality({k \in DOMAIN seq : seq[k] = x})]

\* C39: the node list Optimize leaves is a permutation of the node list it
\* was given, for every graph with unique ids whose topology entries name
\* nodes, cyclic graphs included: no node is dropped, duplicated or altered
C39_OptimizeOnlyReorders ==
  (optimized.called /\ UniqueIds(graph) /\ NoDangling(graph))
    => Occurrences(optimized.Nodes) = Occurrences(graph.Nodes)

\* the same for graphs with unique ids, no cycle and no entry that names no
\* node
C39_OptimizeReordersAcyclic ==
  (optimized.called /\ UniqueIds(graph) /\ ~Cyclic(graph) /\ NoDangling(graph))
    => Occurrences(optimized.Nodes) = Occurrences(graph.Nodes)

\* Deserialize returned the graph that was serialized: the same nodes (id,
\* in, out, kernel, flags, topology in order) and the same payload bytes
RoundTripped ==
  /\ deserialized.err = Nil
  /\ deserialized.graph.Nodes = graph.Nodes
  /\ deserialized.graph.Payload = graph.Payload

\* C40: for every graph (of at most 65535 nodes, each with at most 255
\* topology entries, none of them 0xFFFF, over a payload of any length, 0
\* included) Deserialize(Serialize(g)) succeeds and returns the nodes and
\* the payload of g
C40_SerializeRoundTrips ==
  deserialized.called => RoundTripped

\* the same for graphs with a non-empty payload whose nodes have at most
\* two topology entries
C40_SerializeRoundTripsTwoEntries ==
  (/\ deserialized.called /\ graph.Payload # <<>>
   /\ \A i \in DOMAIN graph.Nodes : Len(graph.Nodes[i].Topo) <= SerializedTopoLen)
    => RoundTripped

\* the same for graphs with a non-empty payload
C40_SerializeRoundTripsWithPayload ==
  (deserialized.called /\ graph.Payload # <<>>) => RoundTripped

====
